---- MODULE Spec2Model ----
(***************************************************************************)
(* Model of the App Store Connect MCP server's authenticated request and   *)
(* report-retrieval pipeline:                                              *)
(*   - AppStoreConnectClient.request      (services/appstore-client.ts)    *)
(*   - AppStoreConnectClient.downloadReport (the in-memory client variant) *)
(*   - AnalyticsHandlers.downloadSalesReport / downloadFinanceReport       *)
(* Bytes and characters are natural numbers (byte values, code points).    *)
(* Texts are sequences of code points, buffers are sequences of bytes.     *)
(***************************************************************************)
EXTENDS Integers, Sequences, FiniteSets, TLC

(***************************************************************************)
(* Bounds of the model.                                                    *)
(***************************************************************************)
\* longest report payload (in bytes) that is compressed into a response
MaxLen == 2
\* number of failing file removals the environment injects
MaxFaults == 1

(***************************************************************************)
(* Program constants.                                                      *)
(***************************************************************************)
\* Math.floor(Math.random() * 10000): the suffix is in 0..RandomRange-1
RandomRange == 10000
\* gzip magic number, first and second byte
GzipMagic1 == 31
GzipMagic2 == 139

NoValue == "undefined"

(***************************************************************************)
(* Sequence helpers.                                                       *)
(***************************************************************************)
RECURSIVE SumSeq(_)
SumSeq(s) == IF s = <<>> THEN 0 ELSE Head(s) + SumSeq(Tail(s))

SeqsUpTo(S, n) == UNION {[1..k -> S] : k \in 0..n}

Contains(s, x) == \E i \in DOMAIN s : s[i] = x

StartsWith(s, p) == Len(s) >= Len(p) /\ SubSeq(s, 1, Len(p)) = p

(***************************************************************************)
(* zlib.gunzipSync, abstracted.  A gzip member is modelled as              *)
(*   magic(2) ++ deflated payload ++ checksum(1) ++ size(1)                *)
(* where deflating is a byte-wise bijection (not the identity), the        *)
(* checksum is the byte sum of the payload and the size its length.        *)
(* Gunzip fails on a truncated member, a bad checksum or a bad size.       *)
(***************************************************************************)
DeflateByte(b) == (b + 77) % 256
InflateByte(b) == (b + 179) % 256
Crc(p) == SumSeq(p) % 256

Gzip(p) == <<GzipMagic1, GzipMagic2>> \o [i \in 1..Len(p) |-> DeflateByte(p[i])]
             \o <<Crc(p), Len(p) % 256>>

GunzipBody(buffer) == [i \in 1..(Len(buffer) - 4) |-> InflateByte(buffer[i + 2])]

GunzipOk(buffer) ==
    /\ Len(buffer) >= 4
    /\ buffer[1] = GzipMagic1 /\ buffer[2] = GzipMagic2
    /\ buffer[Len(buffer) - 1] = Crc(GunzipBody(buffer))
    /\ buffer[Len(buffer)] = Len(GunzipBody(buffer)) % 256

\* gunzipSync(buffer): [ok, bytes, msg]
Gunzip(buffer) ==
    IF GunzipOk(buffer)
    THEN [ok |-> TRUE, bytes |-> GunzipBody(buffer), msg |-> ""]
    ELSE [ok |-> FALSE, bytes |-> <<>>,
          msg |-> IF Len(buffer) < 4 THEN "unexpected end of file"
                  ELSE "incorrect data check"]

(***************************************************************************)
(* Buffer.toString('utf-8') / fs.readFileSync(path, 'utf-8'): UTF-8        *)
(* decoding of one- and two-byte sequences; every byte that does not take  *)
(* part in a valid sequence decodes to U+FFFD.  (Lead bytes of three- and  *)
(* four-byte sequences do not occur in the byte alphabet of this model.)   *)
(***************************************************************************)
\* U+FFFD
ReplacementChar == 65533

IsContinuation(b) == b >= 128 /\ b <= 191
IsLead2(b) == b >= 194 /\ b <= 223

RECURSIVE Utf8Decode(_)
Utf8Decode(bytes) ==
    IF bytes = <<>> THEN <<>>
    ELSE LET b == Head(bytes) IN
         IF b < 128 THEN <<b>> \o Utf8Decode(Tail(bytes))
         ELSE IF IsLead2(b) /\ Len(bytes) >= 2 /\ IsContinuation(bytes[2])
              THEN <<(b - 192) * 64 + (bytes[2] - 128)>>
                     \o Utf8Decode(Tail(Tail(bytes)))
              ELSE <<ReplacementChar>> \o Utf8Decode(Tail(bytes))

(***************************************************************************)
(* String.prototype.trim and JSON.parse on a text.  The parser covers      *)
(* objects, arrays, unsigned integers, strings without escapes and the     *)
(* literals null, true, false.  A parsed value is summarised by            *)
(*   ok, next (position after the value), truthy (JavaScript truthiness),  *)
(*   hasErrors (an object whose "errors" member is truthy).                *)
(***************************************************************************)
\* code points of the characters the program tests for
Ch(name) ==
    CASE name = "nul" -> 0      [] name = "tab" -> 9     [] name = "lf" -> 10
      [] name = "cr" -> 13      [] name = "space" -> 32  [] name = "quote" -> 34
      [] name = "comma" -> 44   [] name = "dash" -> 45   [] name = "zero" -> 48
      [] name = "nine" -> 57    [] name = "colon" -> 58  [] name = "lbracket" -> 91
      [] name = "rbracket" -> 93 [] name = "lbrace" -> 123 [] name = "rbrace" -> 125

IsWs(c) == c \in {Ch("space"), Ch("tab"), Ch("lf"), Ch("cr")}
IsDigit(c) == c >= Ch("zero") /\ c <= Ch("nine")

KeyErrors == <<101, 114, 114, 111, 114, 115>>   \* errors
LitNull == <<110, 117, 108, 108>>               \* null
LitTrue == <<116, 114, 117, 101>>               \* true
LitFalse == <<102, 97, 108, 115, 101>>          \* false

RECURSIVE SkipWs(_, _)
SkipWs(t, i) == IF i <= Len(t) /\ IsWs(t[i]) THEN SkipWs(t, i + 1) ELSE i

RECURSIVE TrimEnd(_)
TrimEnd(t) == IF t # <<>> /\ IsWs(t[Len(t)]) THEN TrimEnd(SubSeq(t, 1, Len(t) - 1)) ELSE t

Trim(t) == LET e == TrimEnd(t) IN SubSeq(e, SkipWs(e, 1), Len(e))

RECURSIVE SkipDigits(_, _)
SkipDigits(t, i) == IF i <= Len(t) /\ IsDigit(t[i]) THEN SkipDigits(t, i + 1) ELSE i

\* position of the closing quote of a string whose first character is at i
RECURSIVE FindQuote(_, _)
FindQuote(t, i) ==
    IF i > Len(t) THEN 0
    ELSE IF t[i] = Ch("quote") THEN i
    ELSE FindQuote(t, i + 1)

HasAt(t, i, lit) == i + Len(lit) - 1 <= Len(t) /\ SubSeq(t, i, i + Len(lit) - 1) = lit

ParseFail == [ok |-> FALSE, next |-> 0, truthy |-> FALSE, hasErrors |-> FALSE]
Parsed(n, tr, he) == [ok |-> TRUE, next |-> n, truthy |-> tr, hasErrors |-> he]

RECURSIVE ParseValue(_, _)
RECURSIVE ParseElements(_, _)
RECURSIVE ParseMembers(_, _, _)

\* the elements of an array after "[" or after a comma; i is the first element
ParseElements(t, i) ==
    LET v == ParseValue(t, SkipWs(t, i)) IN
    IF ~v.ok THEN ParseFail
    ELSE LET j == SkipWs(t, v.next) IN
         IF j > Len(t) THEN ParseFail
         ELSE IF t[j] = Ch("rbracket") THEN Parsed(j + 1, TRUE, FALSE)
         ELSE IF t[j] = Ch("comma") THEN ParseElements(t, j + 1)
         ELSE ParseFail

\* the members of an object; i is the opening quote of the next key and
\* he tells whether the members read so far leave a truthy "errors"
ParseMembers(t, i, he) ==
    IF i > Len(t) \/ t[i] # Ch("quote") THEN ParseFail
    ELSE LET q == FindQuote(t, i + 1) IN
         IF q = 0 THEN ParseFail
         ELSE LET key == SubSeq(t, i + 1, q - 1)
                  c == SkipWs(t, q + 1)
              IN IF c > Len(t) \/ t[c] # Ch("colon") THEN ParseFail
                 ELSE LET v == ParseValue(t, SkipWs(t, c + 1)) IN
                      IF ~v.ok THEN ParseFail
                      ELSE LET j == SkipWs(t, v.next)
                               he2 == IF key = KeyErrors THEN v.truthy ELSE he
                           IN IF j > Len(t) THEN ParseFail
                              ELSE IF t[j] = Ch("rbrace") THEN Parsed(j + 1, TRUE, he2)
                              ELSE IF t[j] = Ch("comma")
                                   THEN ParseMembers(t, SkipWs(t, j + 1), he2)
                              ELSE ParseFail

ParseValue(t, i) ==
    IF i > Len(t) THEN ParseFail
    ELSE IF t[i] = Ch("lbrace")
         THEN LET j == SkipWs(t, i + 1) IN
              IF j <= Len(t) /\ t[j] = Ch("rbrace") THEN Parsed(j + 1, TRUE, FALSE)
              ELSE ParseMembers(t, j, FALSE)
    ELSE IF t[i] = Ch("lbracket")
         THEN LET j == SkipWs(t, i + 1) IN
              IF j <= Len(t) /\ t[j] = Ch("rbracket") THEN Parsed(j + 1, TRUE, FALSE)
              ELSE ParseElements(t, j)
    ELSE IF t[i] = Ch("quote")
         THEN LET q == FindQuote(t, i + 1) IN
              IF q = 0 THEN ParseFail ELSE Parsed(q + 1, q > i + 1, FALSE)
    ELSE IF IsDigit(t[i])
         THEN LET j == SkipDigits(t, i) IN
              IF t[i] = Ch("zero") /\ j > i + 1 THEN ParseFail
              ELSE Parsed(j, t[i] # Ch("zero"), FALSE)
    ELSE IF HasAt(t, i, LitNull) THEN Parsed(i + Len(LitNull), FALSE, FALSE)
    ELSE IF HasAt(t, i, LitTrue) THEN Parsed(i + Len(LitTrue), TRUE, FALSE)
    ELSE IF HasAt(t, i, LitFalse) THEN Parsed(i + Len(LitFalse), FALSE, FALSE)
    ELSE ParseFail

\* JSON.parse(text): [ok, hasErrors]
JsonParse(t) ==
    LET v == ParseValue(t, SkipWs(t, 1)) IN
    IF v.ok /\ SkipWs(t, v.next) = Len(t) + 1
    THEN [ok |-> TRUE, hasErrors |-> v.hasErrors]
    ELSE [ok |-> FALSE, hasErrors |-> FALSE]

(***************************************************************************)
(* Response bodies of the report endpoints.                                *)
(***************************************************************************)
TxtErrorsList == <<123, 34, 101, 114, 114, 111, 114, 115, 34, 58, 91, 49, 93, 125>>           \* {"errors":[1]}
TxtErrorsListPadded == <<32, 123, 34, 101, 114, 114, 111, 114, 115, 34, 58, 91, 49, 93, 125, 32>>  \* _{"errors":[1]}_
TxtErrorsEmptyList == <<123, 34, 101, 114, 114, 111, 114, 115, 34, 58, 91, 93, 125>>          \* {"errors":[]}
TxtErrorsNull == <<123, 34, 101, 114, 114, 111, 114, 115, 34, 58, 110, 117, 108, 108, 125>>   \* {"errors":null}
TxtErrorsZero == <<123, 34, 101, 114, 114, 111, 114, 115, 34, 58, 48, 125>>                   \* {"errors":0}
TxtDataOnly == <<123, 34, 100, 97, 116, 97, 34, 58, 91, 49, 93, 125>>                         \* {"data":[1]}
TxtEmptyObject == <<123, 125>>                                                                \* {}
TxtBrokenJson == <<123, 34, 101, 114, 114, 111, 114, 115, 34, 58, 91, 49, 93>>                \* {"errors":[1]
TxtBraceCsv == <<123, 65, 44, 66>>                                                            \* {A,B
TxtCsv == <<65, 9, 66, 10, 49, 9, 50>>                                                        \* A<tab>B<lf>1<tab>2
TxtSpaceCsv == <<32, 65>>                                                                     \* _A

\* bytes a report payload is made of: NUL, "A", a stray continuation byte
PayloadBytes == {Ch("nul"), 65, 200}

Payloads == SeqsUpTo(PayloadBytes, MaxLen)

\* well-formed gzip members
GzipBuffers == {Gzip(p) : p \in Payloads}

\* buffers that carry the magic number and are no gzip member
BrokenGzipBuffers ==
    { <<GzipMagic1, GzipMagic2>>,
      <<GzipMagic1, GzipMagic2, 65>>,
      <<GzipMagic1, GzipMagic2, DeflateByte(65), 0, 1>>,
      <<GzipMagic1, GzipMagic2, DeflateByte(65), 65, 2>> }

\* buffers without the magic number (short ones and a half magic included)
PlainBuffers ==
    { <<>>, <<GzipMagic1>>, <<GzipMagic1, 65>>, <<GzipMagic2, GzipMagic1>>,
      <<65, 0>>, <<195, 169>>,
      TxtErrorsList, TxtErrorsListPadded, TxtErrorsEmptyList, TxtErrorsNull,
      TxtErrorsZero, TxtDataOnly, TxtEmptyObject, TxtBrokenJson, TxtBraceCsv,
      TxtCsv, TxtSpaceCsv }

ResponseBuffers == GzipBuffers \cup BrokenGzipBuffers \cup PlainBuffers


(***************************************************************************)
(* Results and errors.  A result is what an async operation settles with:  *)
(* kind "return" (data: the text of { data }, json: a structured body) or  *)
(* kind "throw" (err).                                                     *)
(***************************************************************************)
\* error.response?.data?.errors?.[0] as the formatter sees it: present, and
\* its detail and title fields (NoValue: the field is absent)
NoApiError == [present |-> FALSE, detail |-> NoValue, title |-> NoValue]

\* type: the JavaScript class; code: the throw site; msg: the message, as a
\* sequence of strings; status: the HTTP status of an axios error with a
\* response (0: none); api: error.response?.data?.errors?.[0];
\* mcp: the ErrorCode of an McpError
\* body: the first structured error of the body the server sent
NoError == [type |-> "none", code |-> "none", msg |-> <<>>, status |-> 0,
            body |-> NoApiError, api |-> NoApiError, mcp |-> NoValue]
MkError(type, code, msg) == [type |-> type, code |-> code, msg |-> msg, status |-> 0,
                             body |-> NoApiError, api |-> NoApiError, mcp |-> NoValue]
\* new McpError(errorCode, message)
McpError(errorCode, code, msg) == [MkError("McpError", code, msg) EXCEPT !.mcp = errorCode]

\* the bookkeeping of one pass through the temp-file staging
NoStage == [staged |-> FALSE, ts |-> 0, rnd |-> 0, log |-> <<>>, warned |-> FALSE,
            unlinkFailed |-> FALSE]

Returned(data, stage) ==
    [kind |-> "return", data |-> data, json |-> NoValue, err |-> NoError, stage |-> stage]
ReturnedJson(json) ==
    [kind |-> "return", data |-> <<>>, json |-> json, err |-> NoError, stage |-> NoStage]
\* a response body axios hands over as a string (a body that is not JSON)
ReturnedString(text) ==
    [kind |-> "return", data |-> text, json |-> "string", err |-> NoError, stage |-> NoStage]
Thrown(err, stage) ==
    [kind |-> "throw", data |-> <<>>, json |-> NoValue, err |-> err, stage |-> stage]
NoResult ==
    [kind |-> "none", data |-> <<>>, json |-> NoValue, err |-> NoError, stage |-> NoStage]

(***************************************************************************)
(* The temp directory: the set of paths that exist.  A staged path is      *)
(* apple_report_<timestamp>_<random>.<ext>.                                *)
(***************************************************************************)
TempPath(ts, rnd, ext) == <<"apple_report", ts, rnd, ext>>

\* the random suffixes the model draws names from: both ends of the range
RandomSamples == {0, RandomRange - 1}

(***************************************************************************)
(* I/O faults of one staging pass, chosen by the environment:              *)
(*   io:     the file operation that throws ("gz": writing the .gz file    *)
(*           fails and leaves nothing, "gzPartial": it fails and leaves    *)
(*           the file, "txt"/"txtPartial" likewise, "read": the read-back) *)
(*   unlink: the removal that throws.                                      *)
(***************************************************************************)
NoFaults == [io |-> "none", unlink |-> "none"]
FaultChoices == [io : {"none", "gz", "gzPartial", "txt", "txtPartial", "read"},
                 unlink : {"none", "gz", "txt"}]
\* failing removals persist in the temp directory and are budgeted
FaultsIn(flt) == IF flt.unlink = "none" THEN 0 ELSE 1

\* request, line 64: the gzip magic number sniff
IsGzipFirstByteOnly(buffer) == Len(buffer) >= 1 /\ buffer[1] = GzipMagic1
IsGzipWrongMagic(buffer) == Len(buffer) >= 2 /\ buffer[1] = GzipMagic1 /\ buffer[2] = GzipMagic2 + 1
IsGzip(buffer) == Len(buffer) >= 2 /\ buffer[1] = GzipMagic1 /\ buffer[2] = GzipMagic2

\* request, line 91: !csvData || csvData.includes('\0')
IsInvalidTextEmptyOnly(csvData) == csvData = <<>>
IsInvalidTextNulOnly(csvData) == Contains(csvData, Ch("nul"))
IsInvalidText(csvData) == csvData = <<>> \/ Contains(csvData, Ch("nul"))

\* request, lines 100-106: removal on the success path.  A throwing
\* unlinkSync leaves its file, skips the rest of the block and is logged.
CleanupOnSuccessSkipped(files, gz, txt, flt) ==
    [files |-> files, log |-> <<>>, warned |-> FALSE, failed |-> FALSE]
CleanupOnSuccessKeepsTxt(files, gz, txt, flt) ==
    [files |-> files \ {gz}, log |-> <<"unlinkGz">>, warned |-> FALSE, failed |-> FALSE]
CleanupOnSuccess(files, gz, txt, flt) ==
    IF flt.unlink = "gz"
    THEN [files |-> files, log |-> <<"unlinkGz">>, warned |-> TRUE, failed |-> TRUE]
    ELSE IF flt.unlink = "txt"
    THEN [files |-> files \ {gz}, log |-> <<"unlinkGz", "unlinkTxt">>,
          warned |-> TRUE, failed |-> TRUE]
    ELSE [files |-> files \ {gz, txt}, log |-> <<"unlinkGz", "unlinkTxt">>,
          warned |-> FALSE, failed |-> FALSE]

\* request, lines 112-117: removal on the failure path.  Only existing
\* files are removed; a throwing unlinkSync is ignored without a log line.
CleanupOnErrorNone(files, gz, txt, flt) ==
    [files |-> files, log |-> <<>>, warned |-> FALSE, failed |-> FALSE]
CleanupOnErrorLogged(files, gz, txt, flt) ==
    [files |-> files, log |-> <<>>,
     warned |-> flt.unlink # "none", failed |-> flt.unlink # "none"]
CleanupOnError(files, gz, txt, flt) ==
    LET gzThere == gz \in files
        txtThere == txt \in files
    IN IF gzThere /\ flt.unlink = "gz"
       THEN [files |-> files, log |-> <<"unlinkGz">>, warned |-> FALSE, failed |-> TRUE]
       ELSE LET f1 == files \ {gz}
                l1 == IF gzThere THEN <<"unlinkGz">> ELSE <<>>
            IN IF txtThere /\ flt.unlink = "txt"
               THEN [files |-> f1, log |-> l1 \o <<"unlinkTxt">>,
                     warned |-> FALSE, failed |-> TRUE]
               ELSE [files |-> f1 \ {txt},
                     log |-> l1 \o (IF txtThere THEN <<"unlinkTxt">> ELSE <<>>),
                     warned |-> FALSE, failed |-> FALSE]

\* request, lines 76, 84, 87: error.message of the exception a failing
\* writeFileSync or readFileSync throws.  A failing open names the path, a
\* failing write or read names the system call only.
FsErrorMessage(io) ==
    CASE io = "gz" -> "EACCES: permission denied, open apple_report.gz"
      [] io = "txt" -> "EACCES: permission denied, open apple_report.txt"
      [] io \in {"gzPartial", "txtPartial"} -> "ENOSPC: no space left on device, write"
      [] io = "read" -> "EIO: i/o error, read"
      [] OTHER -> NoValue

\* request, lines 110-120: the catch block of the staging pass
StageCatch(files, gz, txt, flt, ts, rnd, log, innerMsg) ==
    LET c == CleanupOnError(files, gz, txt, flt) IN
    [files |-> c.files,
     result |-> Thrown(MkError("Error", "decode",
                               <<"Failed to decompress report data: ", innerMsg>>),
                       [staged |-> TRUE, ts |-> ts, rnd |-> rnd,
                        log |-> log \o c.log \o <<"throw">>,
                        warned |-> c.warned, unlinkFailed |-> c.failed])]

\* request, line 87: fs.readFileSync(tempTxtPath, 'utf-8') of the bytes that
\* line 84 wrote
ReadBackLatin1(bytes) == bytes
ReadBack(bytes) == Utf8Decode(bytes)

\* request, lines 65-120: decompression through the temp files.
\* Gives the new content of the temp directory and the result.
StageDecompress(buffer, ts, rnd, flt, files) ==
    LET gz == TempPath(ts, rnd, "gz")
        txt == TempPath(ts, rnd, "txt")
        \* line 76: fs.writeFileSync(tempGzPath, buffer)
        f1 == IF flt.io = "gz" THEN files ELSE files \cup {gz}
        \* line 80: gunzipSync(buffer)
        z == Gunzip(buffer)
        \* line 84: fs.writeFileSync(tempTxtPath, decompressed, 'utf-8')
        f2 == IF flt.io = "txt" THEN f1 ELSE f1 \cup {txt}
        \* line 87
        csvData == ReadBack(z.bytes)
    IN IF flt.io \in {"gz", "gzPartial"}
       THEN StageCatch(f1, gz, txt, flt, ts, rnd, <<"writeGz">>, FsErrorMessage(flt.io))
       ELSE IF ~z.ok
       THEN StageCatch(f1, gz, txt, flt, ts, rnd, <<"writeGz", "gunzip">>, z.msg)
       ELSE IF flt.io \in {"txt", "txtPartial"}
       THEN StageCatch(f2, gz, txt, flt, ts, rnd, <<"writeGz", "gunzip", "writeTxt">>,
                       FsErrorMessage(flt.io))
       ELSE IF flt.io = "read"
       THEN StageCatch(f2, gz, txt, flt, ts, rnd,
                       <<"writeGz", "gunzip", "writeTxt", "readTxt">>,
                       FsErrorMessage(flt.io))
       ELSE IF IsInvalidText(csvData)
       THEN StageCatch(f2, gz, txt, flt, ts, rnd,
                       <<"writeGz", "gunzip", "writeTxt", "readTxt", "validate">>,
                       "Decompressed data contains invalid characters")
       ELSE LET c == CleanupOnSuccess(f2, gz, txt, flt) IN
            [files |-> c.files,
             result |-> Returned(csvData,
                          [staged |-> TRUE, ts |-> ts, rnd |-> rnd,
                           log |-> <<"writeGz", "gunzip", "writeTxt", "readTxt", "validate">>
                                     \o c.log \o <<"return">>,
                           warned |-> c.warned, unlinkFailed |-> c.failed])]

\* request, lines 127-134: the try block around JSON.parse; tells what it throws
SniffErrorDocument(textData) ==
    LET jsonData == JsonParse(textData) IN
    IF ~jsonData.ok THEN [thrown |-> TRUE, err |-> MkError("SyntaxError", "json-syntax", <<"Unexpected token">>)]
    ELSE IF jsonData.hasErrors
    THEN [thrown |-> TRUE, err |-> MkError("Error", "api-error", <<"API Error: ", "errors">>)]
    ELSE [thrown |-> FALSE, err |-> NoError]

\* request, line 132: catch (e) {} takes every exception of that try block,
\* the API error thrown two lines above included, and continues
SniffCatchRethrows(err) == FALSE

\* request, lines 121-138: a buffer without the magic number
ResolvePlainText(buffer) ==
    LET textData == Utf8Decode(buffer)
        sniff == IF StartsWith(Trim(textData), <<Ch("lbrace")>>)
                 THEN SniffErrorDocument(textData)
                 ELSE [thrown |-> FALSE, err |-> NoError]
    IN IF sniff.thrown /\ SniffCatchRethrows(sniff.err)
       THEN Thrown(sniff.err, NoStage)
       ELSE Returned(textData, NoStage)

\* request, lines 49-143: the payload of a report endpoint
\* (lines 139-142 rethrow what the block throws)
ResolveReportPayload(buffer, ts, rnd, flt, files) ==
    IF IsGzip(buffer)
    THEN StageDecompress(buffer, ts, rnd, flt, files)
    ELSE [files |-> files, result |-> ResolvePlainText(buffer)]

\* downloadReport of the in-memory client variant: gunzipSync and
\* toString('utf-8') without staging; the catch block rethrows
ResolveInMemory(buffer) ==
    IF IsGzip(buffer)
    THEN LET z == Gunzip(buffer) IN
         IF z.ok THEN Returned(Utf8Decode(z.bytes), NoStage)
         ELSE Thrown(MkError("Error", "zlib", <<z.msg>>), NoStage)
    ELSE Returned(Utf8Decode(buffer), NoStage)

(***************************************************************************)
(* Report dates.  A date argument is absent or a text; the current date    *)
(* is a month (m: months since year 0) and an offset into it (off: 0 is    *)
(* the first instant of the month).                                        *)
(***************************************************************************)
Some(v) == [present |-> TRUE, v |-> v]
None == [present |-> FALSE, v |-> <<>>]

RECURSIVE DigitsToNat(_)
DigitsToNat(s) ==
    IF s = <<>> THEN 0
    ELSE DigitsToNat(SubSeq(s, 1, Len(s) - 1)) * 10 + (s[Len(s)] - Ch("zero"))

\* /^\d{4}-\d{2}$/.test(reportDate)
MatchesDatePatternAnyLength(s) ==
    /\ Len(s) >= 7
    /\ \A i \in {1, 2, 3, 4, 6, 7} : IsDigit(s[i])
    /\ s[5] = Ch("dash")
MatchesDatePatternMonthRange(s) ==
    /\ Len(s) = 7
    /\ \A i \in {1, 2, 3, 4, 6, 7} : IsDigit(s[i])
    /\ s[5] = Ch("dash")
    /\ DigitsToNat(SubSeq(s, 6, 7)) \in 1..12
MatchesDatePattern(s) ==
    /\ Len(s) = 7
    /\ \A i \in {1, 2, 3, 4, 6, 7} : IsDigit(s[i])
    /\ s[5] = Ch("dash")

\* new Date(year, monthIndex): months roll over into years, and a year in
\* 0..99 means 1900 + year
NewDate(year, monthIndex) ==
    [m |-> (IF year <= 99 THEN 1900 + year ELSE year) * 12 + monthIndex, off |-> 0]

\* const [year, month] = reportDate.split('-').map(Number); new Date(year, month - 1)
ReportDateObj(reportDate) ==
    NewDate(DigitsToNat(SubSeq(reportDate, 1, 4)), DigitsToNat(SubSeq(reportDate, 6, 7)) - 1)

\* a > b on two dates
DateGreaterOrEqual(a, b) == a.m > b.m \/ (a.m = b.m /\ a.off >= b.off)
DateGreater(a, b) == a.m > b.m \/ (a.m = b.m /\ a.off > b.off)

\* reportDateObj > currentDate
IsFutureDate(reportDate, currentDate) == DateGreater(ReportDateObj(reportDate), currentDate)

\* validateRequired(params, fields) of utils: a field is missing when it is
\* undefined or empty
IsMissing(opt) == ~opt.present \/ opt.v = <<>>

\* vendorNumber = this.config?.vendorNumber as a destructuring default:
\* the configured value is taken only when the argument is undefined
ResolveVendor(vendorArg, configVendor) ==
    IF vendorArg = NoValue THEN configVendor ELSE vendorArg

\* vendorNumber === undefined
IsUndefinedOnly(v) == v = NoValue
\* !vendorNumber
IsFalsyString(v) == v = NoValue \/ v = ""

\* buildFilterParams(filters) of utils: each filter under the key filter[name]
BuildFilterParams(filters) == [filter |-> filters]

NoFilters == [reportDate |-> <<>>, reportType |-> NoValue, reportSubType |-> NoValue,
              frequency |-> NoValue, regionCode |-> NoValue, vendorNumber |-> NoValue]

Passed(filters) == [ok |-> TRUE, err |-> NoError, filters |-> filters]
Rejected(err) == [ok |-> FALSE, err |-> err, filters |-> NoFilters]

\* `${reportDate}` of a well-formed date, as a string
DateText(d) ==
    CASE d = <<50, 48, 50, 51, 45, 49, 50>> -> "2023-12"
      [] d = <<50, 48, 50, 52, 45, 48, 49>> -> "2024-01"
      [] d = <<50, 48, 50, 52, 45, 48, 50>> -> "2024-02"
      [] d = <<50, 48, 50, 52, 45, 49, 51>> -> "2024-13"
      [] d = <<50, 48, 50, 52, 45, 48, 48>> -> "2024-00"
      [] d = <<50, 48, 50, 53, 45, 48, 49>> -> "2025-01"
      [] d = <<48, 48, 57, 57, 45, 48, 49>> -> "0099-01"
      [] OTHER -> "reportDate"

\* lines 114-126 / 155-167: format and future-date checks of both handlers
CheckReportDate(reportDate, currentDate, which) ==
    IF ~MatchesDatePattern(reportDate)
    THEN MkError("Error", "date-format",
                 <<"Report date must be in YYYY-MM format (e.g., 2024-01)">>)
    ELSE IF IsFutureDate(reportDate, currentDate)
    THEN MkError("Error", "future-date",
                 <<"Cannot request ", which, " report for future date: ",
                   DateText(reportDate)>>)
    ELSE NoError

\* downloadSalesReport, lines 100-134: everything before the client call.
\* args: [vendorNumber, reportDate, regionCode]; reportType, reportSubType
\* and frequency take their defaults.
SalesPrepare(args, configVendor, currentDate) ==
    LET vendorNumber == ResolveVendor(args.vendorNumber, configVendor) IN
    IF IsFalsyString(vendorNumber)
    THEN Rejected(MkError("Error", "vendor-required", <<"Vendor number is required.">>))
    ELSE IF IsMissing(args.reportDate)
    THEN Rejected(MkError("McpError", "missing-required",
                          <<"Missing required parameters: ", "reportDate">>))
    ELSE LET e == CheckReportDate(args.reportDate.v, currentDate, "sales") IN
         IF e.code # "none" THEN Rejected(e)
         ELSE Passed([reportDate |-> args.reportDate.v, reportType |-> "SALES",
                      reportSubType |-> "SUMMARY", frequency |-> "MONTHLY",
                      regionCode |-> NoValue, vendorNumber |-> vendorNumber])

\* downloadFinanceReport, lines 147-173
FinancePrepare(args, configVendor, currentDate) ==
    LET vendorNumber == ResolveVendor(args.vendorNumber, configVendor) IN
    IF IsFalsyString(vendorNumber)
    THEN Rejected(MkError("Error", "vendor-required", <<"Vendor number is required.">>))
    ELSE IF IsMissing(args.reportDate) \/ args.regionCode \in {NoValue, ""}
    THEN Rejected(MkError("McpError", "missing-required",
                          <<"Missing required parameters: ", "reportDate, regionCode">>))
    ELSE LET e == CheckReportDate(args.reportDate.v, currentDate, "finance") IN
         IF e.code # "none" THEN Rejected(e)
         ELSE Passed([reportDate |-> args.reportDate.v, reportType |-> NoValue,
                      reportSubType |-> NoValue, frequency |-> NoValue,
                      regionCode |-> args.regionCode, vendorNumber |-> vendorNumber])

\* url.includes('/' + segment)
UrlIncludes(url, segment) == \E i \in DOMAIN url : url[i] = segment

\* request, line 26
IsReportEndpoint(url) == UrlIncludes(url, "salesReports") \/ UrlIncludes(url, "financeReports")

(***************************************************************************)
(* AppHandlers.getAppInfo (apps.ts).                                       *)
(***************************************************************************)
VALID_APP_INCLUDES ==
    <<"appClips", "appInfos", "appStoreVersions", "availableTerritories",
      "betaAppReviewDetail", "betaGroups", "betaLicenseAgreement", "builds",
      "endUserLicenseAgreement", "gameCenterEnabledVersions", "inAppPurchases",
      "preOrder", "prices", "reviewSubmissions">>

\* include.filter(inc => !VALID_APP_INCLUDES.includes(inc))
IsValidIncludeAlways(inc) == TRUE
IsValidInclude(inc) == \E i \in DOMAIN VALID_APP_INCLUDES : VALID_APP_INCLUDES[i] = inc
InvalidIncludes(include) == SelectSeq(include, LAMBDA inc : ~IsValidInclude(inc))

\* include?.length
HasIncludes(include) == include.present /\ Len(include.v) > 0

\* list.join(sep), as the sequence of its pieces
RECURSIVE Join(_, _)
Join(list, sep) ==
    IF list = <<>> THEN <<>>
    ELSE IF Len(list) = 1 THEN list
    ELSE <<Head(list), sep>> \o Join(Tail(list), sep)

\* validateRequired(args, [field]) of utils on a string field: it is missing
\* when undefined or empty
IsMissingField(v) == v = NoValue \/ v = ""

\* what a handler does before it calls the client: ok, or the error it throws;
\* url and include are the path and the include parameter of the call
AppPassed(url, include) == [ok |-> TRUE, err |-> NoError, url |-> url, include |-> include]
AppRejected(err) == [ok |-> FALSE, err |-> err, url |-> <<>>, include |-> <<>>]

\* getAppInfo, lines 28-48. app: [appId, include]
GetAppInfoPrepare(app) ==
    IF IsMissingField(app.appId)
    THEN AppRejected(McpError("InvalidParams", "missing-required",
                              <<"Missing required parameters: ", "appId">>))
    ELSE IF HasIncludes(app.include) /\ Len(InvalidIncludes(app.include.v)) > 0
    THEN AppRejected(MkError("Error", "invalid-include",
                             <<"Invalid include parameters: ">>
                             \o Join(InvalidIncludes(app.include.v), ", ")
                             \o <<". ", "Valid options are: ">>
                             \o Join(VALID_APP_INCLUDES, ", ")))
    ELSE AppPassed(<<"apps", app.appId>>,
                   IF HasIncludes(app.include) THEN Join(app.include.v, ",") ELSE <<>>)

(***************************************************************************)
(* The tool boundary (index.ts): formatToolResponse and the dispatch of    *)
(* CallToolRequest.  A text is a sequence of strings, read concatenated.   *)
(***************************************************************************)
\* a JavaScript value used as a condition
Truthy(v) == v # NoValue /\ v # ""

\* `${status}`; 0 stands for undefined (the error has no response)
StatusText(status) ==
    CASE status = 0 -> "undefined"
      [] status = 400 -> "400"
      [] status = 401 -> "401"
      [] status = 404 -> "404"
      [] status = 500 -> "500"
      [] OTHER -> "status"

\* `${error.config?.url}`
UrlText(url) == Join(<<"">> \o url, "/")

\* url.includes('/apps/'): the segment apps followed by a further segment
UrlIncludesAppsSlash(url) == \E i \in DOMAIN url : url[i] = "apps" /\ i < Len(url)

\* lines 663-666
SalesNotFoundText ==
    <<"Sales report not found. This typically happens when:\n",
      "- The requested date is in the future\n",
      "- No sales data exists for the requested period\n",
      "- The report hasn't been generated yet (reports are usually available 1-2 days after the period ends)">>
\* lines 668-671
FinanceNotFoundText ==
    <<"Finance report not found. This typically happens when:\n",
      "- The requested date is in the future\n",
      "- No financial data exists for the requested period\n",
      "- The report hasn't been generated yet (finance reports are usually available after the 5th of the following month)">>
\* lines 678-682
InvalidIncludesText ==
    <<"Bad request: Invalid relationship includes. ", "Common issues:\n",
      "- Using \"customerReviews\" instead of \"reviewSubmissions\"\n",
      "- Using \"perfPowerMetrics\" which is not a valid relationship\n",
      "- Check that all include values match the API documentation exactly">>
\* line 684
BadRequestText ==
    <<"Bad request: The request parameters are invalid. Check that all values match the API requirements.">>

\* apiError.detail || apiError.title || error.message
DetailOrTitleOrMessage(apiError, msg) ==
    IF Truthy(apiError.detail) THEN <<apiError.detail>>
    ELSE IF Truthy(apiError.title) THEN <<apiError.title>>
    ELSE msg

\* the 404 branch without its report-path cases
NotFoundTextNoReportCase(apiError, cfg) ==
    IF Truthy(apiError.detail) THEN <<apiError.detail>>
    ELSE <<"Resource not found (404): ">> \o UrlText(cfg.url)
\* lines 660-674: status === 404
NotFoundText(apiError, cfg) ==
    IF UrlIncludes(cfg.url, "salesReports") THEN SalesNotFoundText
    ELSE IF UrlIncludes(cfg.url, "financeReports") THEN FinanceNotFoundText
    ELSE IF Truthy(apiError.detail) THEN <<apiError.detail>>
    ELSE <<"Resource not found (404): ">> \o UrlText(cfg.url)

\* the 400 branch with the include explanation on every app-detail path
BadRequestTextAnyAppPath(apiError, cfg) ==
    IF UrlIncludesAppsSlash(cfg.url) THEN InvalidIncludesText
    ELSE IF Truthy(apiError.detail) THEN <<apiError.detail>>
    ELSE BadRequestText
\* lines 675-685: status === 400
BadRequestDiagnostic(apiError, cfg) ==
    IF UrlIncludesAppsSlash(cfg.url) /\ cfg.include # <<>> THEN InvalidIncludesText
    ELSE IF Truthy(apiError.detail) THEN <<apiError.detail>>
    ELSE BadRequestText

\* lines 653-691: the diagnostic text of an error; cfg is error.config, the
\* call the error came from
ErrorMessageRewritesAll(error, cfg) ==
    IF error.status = 404 THEN NotFoundText(error.api, cfg)
    ELSE IF error.status = 400 THEN BadRequestDiagnostic(error.api, cfg)
    ELSE IF error.api.present
    THEN <<"App Store Connect API error: ">> \o DetailOrTitleOrMessage(error.api, error.msg)
    ELSE <<"Request failed with status ", StatusText(error.status), ": ">> \o error.msg
ErrorMessage(error, cfg) ==
    IF error.type # "AxiosError" THEN error.msg
    ELSE IF error.status = 404 THEN NotFoundText(error.api, cfg)
    ELSE IF error.status = 400 THEN BadRequestDiagnostic(error.api, cfg)
    ELSE IF error.api.present
    THEN <<"App Store Connect API error: ">> \o DetailOrTitleOrMessage(error.api, error.msg)
    ELSE <<"Request failed with status ", StatusText(error.status), ": ">> \o error.msg

\* what the CallToolRequest handler settles with: kind "response" (the object
\* formatToolResponse builds) or kind "throw" (err propagates to the caller)
NoReply == [kind |-> "none", isError |-> FALSE, content |-> <<>>, err |-> NoError]
ToolResponse(isError, text) ==
    [kind |-> "response", isError |-> isError,
     content |-> <<[type |-> "text", text |-> text]>>, err |-> NoError]
Propagated(err) == [kind |-> "throw", isError |-> FALSE, content |-> <<>>, err |-> err]

\* JSON.stringify of the characters of a string (without the quotes)
RECURSIVE JsonEscape(_)
JsonEscape(text) ==
    IF text = <<>> THEN <<>>
    ELSE LET c == Head(text)
             hex(d) == IF d < 10 THEN 48 + d ELSE 87 + d
             esc == CASE c = 34 -> <<92, 34>>
                      [] c = 92 -> <<92, 92>>
                      [] c = 8 -> <<92, 98>>
                      [] c = 9 -> <<92, 116>>
                      [] c = 10 -> <<92, 110>>
                      [] c = 12 -> <<92, 102>>
                      [] c = 13 -> <<92, 114>>
                      [] c < 32 /\ c \notin {8, 9, 10, 12, 13}
                           -> <<92, 117, 48, 48, hex(c \div 16), hex(c % 16)>>
                      [] OTHER -> <<c>>
         IN esc \o JsonEscape(Tail(text))

\* line 707: JSON.stringify(result).  A report result is { data: csvData };
\* the document of a standard endpoint stands for {"data":[]}, the result of
\* downloadFromUrl for {"data":{}}.
JsonStringify(result) ==
    IF result.json = NoValue
    THEN <<123, 34, 100, 97, 116, 97, 34, 58, 34>> \o JsonEscape(result.data) \o <<34, 125>>
    ELSE IF result.json = "string"
    THEN <<34>> \o JsonEscape(result.data) \o <<34>>
    ELSE IF result.json = "document"
    THEN <<123, 34, 100, 97, 116, 97, 34, 58, 91, 93, 125>>
    ELSE <<123, 34, 100, 97, 116, 97, 34, 58, 123, 125, 125>>

\* line 707: typeof result === 'string' ? result : JSON.stringify(result)
SuccessTextStringifiesAll(result) == JsonStringify(result)
SuccessText(result) ==
    IF result.json = "string" THEN result.data ELSE JsonStringify(result)

\* formatToolResponse letting the error propagate
FormatToolResponseRethrows(result, cfg) ==
    IF result.kind = "throw" THEN Propagated(result.err)
    ELSE ToolResponse(FALSE, SuccessText(result))
\* formatToolResponse(result, error), lines 651-712, on what the handler
\* settled with
FormatToolResponse(result, cfg) ==
    IF result.kind = "throw" THEN ToolResponse(TRUE, ErrorMessage(result.err, cfg))
    ELSE ToolResponse(FALSE, SuccessText(result))

\* lines 911-919: the outer catch of the CallToolRequest handler
DispatchCatch(error) ==
    IF error.type = "AxiosError"
    THEN Propagated(McpError("InternalError", "api-wrapped",
                             <<"App Store Connect API error: ">>
                             \o (IF Truthy(error.api.detail) THEN <<error.api.detail>>
                                 ELSE error.msg)))
    ELSE Propagated(error)

\* the tool names of the switch, lines 725-903, whose handlers are modelled
ToolListApps == "list_apps"
ToolGetAppInfo == "get_app_info"
ToolDownloadSegment == "download_analytics_report_segment"
ToolSalesReport == "download_sales_report"
ToolFinanceReport == "download_finance_report"
KnownTools == {ToolListApps, ToolGetAppInfo, ToolDownloadSegment, ToolSalesReport,
               ToolFinanceReport}
UnknownTools == {"download_sales_reports", ""}

\* the default case with the classification of remote-API errors
UnknownToolErrorAsApiError(name) ==
    McpError("InternalError", "unknown-tool", <<"Unknown tool: ", name>>)
\* lines 905-909: the default case
UnknownToolError(name) ==
    McpError("MethodNotFound", "unknown-tool", <<"Unknown tool: ", name>>)

\* lines 870-875 / 884-889: the report tools without a configured vendor number
ReportsUnavailable(which) ==
    McpError("MethodNotFound", "reports-unavailable",
             <<which, " reports are not available. Please set APP_STORE_CONNECT_VENDOR_NUMBER environment variable.">>)

\* the reply of the invocation o once its handler has settled with result;
\* an invocation that did not come through the tool boundary has no reply
ReplyFor(o, result, cfg) ==
    IF o.tool = NoValue THEN NoReply ELSE FormatToolResponse(result, cfg)

\* buildToolsList, lines 67-577: the names of baseTools, in order
BaseToolNames ==
    <<"list_apps", "get_app_info", "list_beta_groups", "list_group_testers",
      "add_tester_to_group", "remove_tester_from_group", "create_bundle_id",
      "list_bundle_ids", "get_bundle_id_info", "enable_bundle_capability",
      "disable_bundle_capability", "list_devices", "list_users",
      "create_analytics_report_request", "list_analytics_reports",
      "list_analytics_report_segments", "download_analytics_report_segment",
      "list_schemes">>

\* buildToolsList, lines 580-641: the names of paymentReportTools, in order
PaymentReportToolNames == <<ToolSalesReport, ToolFinanceReport>>

\* buildToolsList listing the report tools whatever the configuration
BuildToolsListAlways(cfg) ==
    LET names == BaseToolNames \o PaymentReportToolNames
    IN [i \in DOMAIN names |-> [name |-> names[i]]]
\* buildToolsList, lines 66-649; of each tool the listing keeps the name (the
\* description and the input schema are left out)
BuildToolsList(cfg) ==
    LET names == IF Truthy(cfg.vendorNumber)
                 THEN BaseToolNames \o PaymentReportToolNames
                 ELSE BaseToolNames
    IN [i \in DOMAIN names |-> [name |-> names[i]]]

\* lines 716-718: what the ListToolsRequest handler settles with
ToolsListed(tools) == [kind |-> "tools", isError |-> FALSE, content |-> tools, err |-> NoError]

(***************************************************************************)
(* Inputs.                                                                 *)
(***************************************************************************)
D2023m12 == <<50, 48, 50, 51, 45, 49, 50>>          \* '2023-12'
D2024m01 == <<50, 48, 50, 52, 45, 48, 49>>          \* '2024-01'
D2024m02 == <<50, 48, 50, 52, 45, 48, 50>>          \* '2024-02'
D2024m13 == <<50, 48, 50, 52, 45, 49, 51>>          \* '2024-13'
D2024m00 == <<50, 48, 50, 52, 45, 48, 48>>          \* '2024-00'
D2025m01 == <<50, 48, 50, 53, 45, 48, 49>>          \* '2025-01'
D0099m01 == <<48, 48, 57, 57, 45, 48, 49>>          \* '0099-01'
DShortYear == <<50, 52, 45, 48, 49>>                \* '24-01'
DShortMonth == <<50, 48, 50, 52, 45, 49>>           \* '2024-1'
DSlash == <<50, 48, 50, 52, 47, 48, 49>>            \* '2024/01'
DWithDay == <<50, 48, 50, 52, 45, 48, 49, 45, 49, 53>>\* '2024-01-15'
DLetter == <<50, 48, 50, 52, 45, 48, 65>>           \* '2024-0A'
DTrailingLf == <<50, 48, 50, 52, 45, 48, 49, 10>>   \* '2024-01\n'
DEmpty == <<>>                                      \* ''

WellFormedDates == {D2023m12, D2024m01, D2024m02, D2024m13, D2024m00, D2025m01, D0099m01}
MalformedDates == {DShortYear, DShortMonth, DSlash, DWithDay, DLetter, DTrailingLf, DEmpty}
DateArgs == {None} \cup {Some(d) : d \in WellFormedDates \cup MalformedDates}

\* current dates: the first instant of January 2024, later in that month,
\* later in December 2024, and later in January 2025
CurrentDates == {[m |-> 2024 * 12, off |-> 0], [m |-> 2024 * 12, off |-> 1],
                 [m |-> 2024 * 12 + 11, off |-> 1], [m |-> 2025 * 12, off |-> 1]}

VendorArgs == {NoValue, "", "V-arg"}
ConfigVendors == {NoValue, "V-config"}
RegionArgs == {NoValue, "Z1"}

SalesArgs == [vendorNumber : VendorArgs, reportDate : DateArgs, regionCode : {NoValue}]
FinanceArgs == [vendorNumber : VendorArgs, reportDate : DateArgs, regionCode : RegionArgs]
NoArgs == [vendorNumber |-> NoValue, reportDate |-> None, regionCode |-> NoValue]

\* request paths, as sequences of path segments
UrlSales == <<"salesReports">>
UrlFinance == <<"financeReports">>
UrlApps == <<"apps">>
UrlApp == <<"apps", "123">>
RequestUrls == {UrlSales, UrlFinance, UrlApps, UrlApp}
Methods == {"GET", "POST"}

UrlSegment == <<"analyticsReportSegments", "seg-1">>

\* get_app_info arguments: [appId, include]
NoApp == [appId |-> NoValue, include |-> None]
AppIds == {NoValue, "", "123"}
IncludeArgs == {None, Some(<<>>), Some(<<"builds">>), Some(<<"customerReviews">>),
                Some(<<"builds", "prices">>), Some(<<"builds", "perfPowerMetrics">>)}
AppArgs == [appId : AppIds, include : IncludeArgs]
SegmentUrlArgs == {NoValue, "url"}

\* HTTP statuses of a failed call (0: no response at all)
FailureStatuses == {0, 400, 404, 500}

\* the first structured error of the body a failed call comes back with
ErrorBodies ==
    {NoApiError} \cup [present : {TRUE}, detail : {NoValue, "", "D"}, title : {NoValue, "T"}]

\* error.response.data.errors[0] as axios hands it over: with responseType
\* 'arraybuffer' the data is the Buffer of the body, which has no errors
\* property; otherwise it is the parsed JSON document
ApiErrorParsedAlways(body, responseType) == body
ApiErrorSeen(body, responseType) ==
    IF responseType = "arraybuffer" THEN NoApiError ELSE body

\* the error axios rejects with; cfg is the call
AxiosError(status, body, cfg) ==
    [MkError("AxiosError", "axios",
             IF status = 0 THEN <<"Network Error">>
             ELSE <<"Request failed with status code ", StatusText(status)>>)
       EXCEPT !.status = status, !.body = body,
              !.api = ApiErrorSeen(body, cfg.responseType)]

(***************************************************************************)
(* State.                                                                  *)
(***************************************************************************)
AllSlots == {1, 2}

VARIABLES
    live,        \* the invocation slots in use
    config,      \* process configuration: [vendorNumber]
    pc,          \* per slot: "idle", "token" (awaiting generateToken),
                 \*           "net" (awaiting the HTTP response), "done"
    op,          \* per slot: the invocation: entry point, arguments, client call,
                 \*           and, once the HTTP response arrived (responded), the
                 \*           response buffer and the I/O faults the decoding met
    tokenCalls,  \* per slot: generateToken calls of the invocation
    netCalls,    \* per slot: HTTP calls issued by the invocation
    call,        \* per slot: the HTTP call issued last
    res,         \* per slot: what the invocation settled with
    clock,       \* Date.now(), in milliseconds
    tmpFiles,    \* the paths that exist in os.tmpdir()
    faultCount,  \* I/O faults injected so far
    reply        \* per slot: what the CallToolRequest handler settled with

vars == <<live, config, pc, op, tokenCalls, netCalls, call, res, clock, tmpFiles, faultCount,
          reply>>

NoCall == [issued |-> FALSE, via |-> NoValue, method |-> NoValue, url |-> <<>>,
           params |-> BuildFilterParams(NoFilters), include |-> <<>>,
           authorization |-> NoValue, contentType |-> NoValue, accept |-> NoValue,
           responseType |-> NoValue]

NoOp == [kind |-> "none", tool |-> NoValue, via |-> NoValue, method |-> NoValue,
         url |-> <<>>, params |-> BuildFilterParams(NoFilters), include |-> <<>>,
         args |-> NoArgs, app |-> NoApp, now |-> [m |-> 0, off |-> 0],
         responded |-> FALSE, buffer |-> <<>>, flt |-> NoFaults]

Init ==
    /\ live = {1}
    /\ config \in [vendorNumber : ConfigVendors]
    /\ pc = [s \in AllSlots |-> "idle"]
    /\ op = [s \in AllSlots |-> NoOp]
    /\ tokenCalls = [s \in AllSlots |-> 0]
    /\ netCalls = [s \in AllSlots |-> 0]
    /\ call = [s \in AllSlots |-> NoCall]
    /\ res = [s \in AllSlots |-> NoResult]
    /\ clock = 0
    /\ tmpFiles = {}
    /\ faultCount = 0
    /\ reply = [s \in AllSlots |-> NoReply]

CanStart(s) == s \in live /\ pc[s] = "idle"

\* a client operation begins: its first statement calls generateToken
\* (request line 23, downloadReport line 69) and awaits it
BeginClientCall(s, o) ==
    /\ pc' = [pc EXCEPT ![s] = "token"]
    /\ op' = [op EXCEPT ![s] = o]
    /\ tokenCalls' = [tokenCalls EXCEPT ![s] = 1]
    /\ netCalls' = [netCalls EXCEPT ![s] = 0]
    /\ call' = [call EXCEPT ![s] = NoCall]
    /\ res' = [res EXCEPT ![s] = NoResult]
    /\ reply' = [reply EXCEPT ![s] = NoReply]

\* an invocation ends before any client operation begins
FailEarly(s, o, err) ==
    /\ pc' = [pc EXCEPT ![s] = "done"]
    /\ op' = [op EXCEPT ![s] = o]
    /\ tokenCalls' = [tokenCalls EXCEPT ![s] = 0]
    /\ netCalls' = [netCalls EXCEPT ![s] = 0]
    /\ call' = [call EXCEPT ![s] = NoCall]
    /\ res' = [res EXCEPT ![s] = Thrown(err, NoStage)]
    /\ reply' = [reply EXCEPT ![s] = ReplyFor(o, Thrown(err, NoStage), NoCall)]

\* client.get / post / put / delete -> request(method, url, data, params)
CallRequest(s) ==
    /\ CanStart(s)
    /\ \E method \in Methods, url \in RequestUrls :
         BeginClientCall(s, [NoOp EXCEPT !.kind = "request", !.via = "request",
                                         !.method = method, !.url = url])
    /\ UNCHANGED <<live, config, clock, tmpFiles, faultCount>>

\* downloadSalesReport(o.args) with new Date() = o.now: it throws, or calls
\* client.downloadReport('/salesReports', buildFilterParams(filters))
DownloadSalesReport(s, o) ==
    LET p == SalesPrepare(o.args, config.vendorNumber, o.now) IN
    IF p.ok
    THEN BeginClientCall(s, [o EXCEPT !.via = "downloadReport", !.method = "GET",
                                      !.url = UrlSales,
                                      !.params = BuildFilterParams(p.filters)])
    ELSE FailEarly(s, o, p.err)

\* downloadFinanceReport(o.args)
DownloadFinanceReport(s, o) ==
    LET p == FinancePrepare(o.args, config.vendorNumber, o.now) IN
    IF p.ok
    THEN BeginClientCall(s, [o EXCEPT !.via = "downloadReport", !.method = "GET",
                                      !.url = UrlFinance,
                                      !.params = BuildFilterParams(p.filters)])
    ELSE FailEarly(s, o, p.err)

\* AnalyticsHandlers.downloadSalesReport(args), called on the handler object
CallSalesReport(s) ==
    /\ CanStart(s)
    /\ \E args \in SalesArgs, now \in CurrentDates :
         DownloadSalesReport(s, [NoOp EXCEPT !.kind = "sales", !.args = args, !.now = now])
    /\ UNCHANGED <<live, config, clock, tmpFiles, faultCount>>

\* AnalyticsHandlers.downloadFinanceReport(args), called on the handler object
CallFinanceReport(s) ==
    /\ CanStart(s)
    /\ \E args \in FinanceArgs, now \in CurrentDates :
         DownloadFinanceReport(s, [NoOp EXCEPT !.kind = "finance", !.args = args,
                                               !.now = now])
    /\ UNCHANGED <<live, config, clock, tmpFiles, faultCount>>

\* CallToolRequest "list_apps", lines 727-733: listApps -> client.get('/apps')
CallToolListApps(s) ==
    /\ CanStart(s)
    /\ BeginClientCall(s, [NoOp EXCEPT !.kind = "tool", !.tool = ToolListApps,
                                       !.via = "request", !.method = "GET",
                                       !.url = UrlApps])
    /\ UNCHANGED <<live, config, clock, tmpFiles, faultCount>>

\* CallToolRequest "get_app_info", lines 735-741
CallToolGetAppInfo(s) ==
    /\ CanStart(s)
    /\ \E app \in AppArgs :
         LET p == GetAppInfoPrepare(app)
             o == [NoOp EXCEPT !.kind = "tool", !.tool = ToolGetAppInfo, !.app = app]
         IN IF p.ok
            THEN BeginClientCall(s, [o EXCEPT !.via = "request", !.method = "GET",
                                              !.url = p.url, !.include = p.include])
            ELSE FailEarly(s, o, p.err)
    /\ UNCHANGED <<live, config, clock, tmpFiles, faultCount>>

\* CallToolRequest "download_analytics_report_segment", lines 860-866:
\* downloadAnalyticsReportSegment -> client.downloadFromUrl(segmentUrl)
CallToolDownloadSegment(s) ==
    /\ CanStart(s)
    /\ \E segmentUrl \in SegmentUrlArgs :
         LET o == [NoOp EXCEPT !.kind = "tool", !.tool = ToolDownloadSegment] IN
         IF IsMissingField(segmentUrl)
         THEN FailEarly(s, o, McpError("InvalidParams", "missing-required",
                                       <<"Missing required parameters: ", "segmentUrl">>))
         ELSE BeginClientCall(s, [o EXCEPT !.via = "downloadFromUrl", !.method = "GET",
                                           !.url = UrlSegment])
    /\ UNCHANGED <<live, config, clock, tmpFiles, faultCount>>

\* CallToolRequest "download_sales_report", lines 868-880
CallToolSalesReport(s) ==
    /\ CanStart(s)
    /\ \E args \in SalesArgs, now \in CurrentDates :
         LET o == [NoOp EXCEPT !.kind = "tool", !.tool = ToolSalesReport,
                               !.args = args, !.now = now]
         IN IF ~Truthy(config.vendorNumber)
            THEN FailEarly(s, o, ReportsUnavailable("Sales"))
            ELSE DownloadSalesReport(s, o)
    /\ UNCHANGED <<live, config, clock, tmpFiles, faultCount>>

\* CallToolRequest "download_finance_report", lines 882-894
CallToolFinanceReport(s) ==
    /\ CanStart(s)
    /\ \E args \in FinanceArgs, now \in CurrentDates :
         LET o == [NoOp EXCEPT !.kind = "tool", !.tool = ToolFinanceReport,
                               !.args = args, !.now = now]
         IN IF ~Truthy(config.vendorNumber)
            THEN FailEarly(s, o, ReportsUnavailable("Finance"))
            ELSE DownloadFinanceReport(s, o)
    /\ UNCHANGED <<live, config, clock, tmpFiles, faultCount>>

\* CallToolRequest with a name outside the switch, lines 905-919: the default
\* case throws and the outer catch lets the error go to the caller
CallToolUnknown(s) ==
    /\ CanStart(s)
    /\ \E name \in UnknownTools :
         /\ op' = [op EXCEPT ![s] = [NoOp EXCEPT !.kind = "tool", !.tool = name]]
         /\ reply' = [reply EXCEPT ![s] = DispatchCatch(UnknownToolError(name))]
    /\ pc' = [pc EXCEPT ![s] = "done"]
    /\ tokenCalls' = [tokenCalls EXCEPT ![s] = 0]
    /\ netCalls' = [netCalls EXCEPT ![s] = 0]
    /\ call' = [call EXCEPT ![s] = NoCall]
    /\ res' = [res EXCEPT ![s] = NoResult]
    /\ UNCHANGED <<live, config, clock, tmpFiles, faultCount>>

\* lines 716-718: the ListToolsRequest handler
ListTools(s) ==
    /\ CanStart(s)
    /\ op' = [op EXCEPT ![s] = [NoOp EXCEPT !.kind = "listTools"]]
    /\ reply' = [reply EXCEPT ![s] = ToolsListed(BuildToolsList(config))]
    /\ pc' = [pc EXCEPT ![s] = "done"]
    /\ tokenCalls' = [tokenCalls EXCEPT ![s] = 0]
    /\ netCalls' = [netCalls EXCEPT ![s] = 0]
    /\ call' = [call EXCEPT ![s] = NoCall]
    /\ res' = [res EXCEPT ![s] = NoResult]
    /\ UNCHANGED <<live, config, clock, tmpFiles, faultCount>>

\* request, lines 25-46: the HTTP call request issues once it holds a token
RequestCall(o) ==
    [issued |-> TRUE, via |-> "request", method |-> o.method, url |-> o.url,
     params |-> o.params, include |-> o.include,
     authorization |-> "Bearer token", contentType |-> "application/json",
     accept |-> IF IsReportEndpoint(o.url) THEN "application/a-gzip, application/json"
                ELSE NoValue,
     responseType |-> IF IsReportEndpoint(o.url) THEN "arraybuffer" ELSE "json"]

\* downloadReport (in-memory client variant), lines 76-84: axios.get(url, ...)
DownloadReportCallNoParams(o) ==
    [issued |-> TRUE, via |-> "downloadReport", method |-> "GET", url |-> o.url,
     params |-> BuildFilterParams(NoFilters), include |-> <<>>,
     authorization |-> "Bearer token", contentType |-> NoValue,
     accept |-> "application/a-gzip", responseType |-> "arraybuffer"]
DownloadReportCall(o) ==
    [issued |-> TRUE, via |-> "downloadReport", method |-> "GET", url |-> o.url,
     params |-> o.params, include |-> <<>>,
     authorization |-> "Bearer token", contentType |-> NoValue,
     accept |-> "application/a-gzip", responseType |-> "arraybuffer"]

\* downloadFromUrl, lines 167-171: axios.get(url, { headers: { Authorization } })
DownloadFromUrlCall(o) ==
    [issued |-> TRUE, via |-> "downloadFromUrl", method |-> "GET", url |-> o.url,
     params |-> BuildFilterParams(NoFilters), include |-> <<>>,
     authorization |-> "Bearer token", contentType |-> NoValue,
     accept |-> NoValue, responseType |-> NoValue]

ClientCall(o) ==
    IF o.via = "request" THEN RequestCall(o)
    ELSE IF o.via = "downloadFromUrl" THEN DownloadFromUrlCall(o)
    ELSE DownloadReportCall(o)

\* the error generateToken rejects with (AuthService)
TokenError == MkError("Error", "auth", <<"token generation failed">>)

\* generateToken resolves: the operation builds its headers and issues the call
TokenIssued(s) ==
    /\ s \in live /\ pc[s] = "token"
    /\ pc' = [pc EXCEPT ![s] = "net"]
    /\ netCalls' = [netCalls EXCEPT ![s] = @ + 1]
    /\ call' = [call EXCEPT ![s] = ClientCall(op[s])]
    /\ UNCHANGED <<live, config, op, tokenCalls, res, clock, tmpFiles, faultCount, reply>>

\* generateToken rejects: the await at the top of the operation throws
TokenFailedRetries(s) ==
    /\ s \in live /\ pc[s] = "token" /\ tokenCalls[s] < 2
    /\ tokenCalls' = [tokenCalls EXCEPT ![s] = @ + 1]
    /\ UNCHANGED <<live, config, pc, op, netCalls, call, res, clock, tmpFiles, faultCount,
                   reply>>
\* the token failure arriving after the HTTP call has been issued
TokenFailedAfterCall(s) ==
    /\ s \in live /\ pc[s] = "token"
    /\ pc' = [pc EXCEPT ![s] = "done"]
    /\ netCalls' = [netCalls EXCEPT ![s] = @ + 1]
    /\ call' = [call EXCEPT ![s] = ClientCall(op[s])]
    /\ LET r == Thrown(TokenError, NoStage) IN
         /\ res' = [res EXCEPT ![s] = r]
         /\ reply' = [reply EXCEPT ![s] = ReplyFor(op[s], r, call[s])]
    /\ UNCHANGED <<live, config, op, tokenCalls, clock, tmpFiles, faultCount>>
TokenFailed(s) ==
    /\ s \in live /\ pc[s] = "token"
    /\ pc' = [pc EXCEPT ![s] = "done"]
    /\ LET r == Thrown(TokenError, NoStage) IN
         /\ res' = [res EXCEPT ![s] = r]
         /\ reply' = [reply EXCEPT ![s] = ReplyFor(op[s], r, call[s])]
    /\ UNCHANGED <<live, config, op, tokenCalls, netCalls, call, clock, tmpFiles, faultCount>>

\* the HTTP call fails (a status outside 2xx, or no response): axios rejects
NetworkError(s) ==
    /\ s \in live /\ pc[s] = "net"
    /\ pc' = [pc EXCEPT ![s] = "done"]
    /\ \E status \in FailureStatuses, body \in ErrorBodies :
         /\ status = 0 => body = NoApiError
         /\ LET r == Thrown(AxiosError(status, body, call[s]), NoStage) IN
              /\ res' = [res EXCEPT ![s] = r]
              /\ reply' = [reply EXCEPT ![s] = ReplyFor(op[s], r, call[s])]
    /\ UNCHANGED <<live, config, op, tokenCalls, netCalls, call, clock, tmpFiles, faultCount>>

\* response.data of a standard endpoint: the parsed document, or the body as a
\* string when it is not JSON (an empty body, the text A")
StandardResults == {ReturnedJson("document"), ReturnedString(<<>>), ReturnedString(<<65, 34>>)}

\* request, lines 48-145 on a standard endpoint: response.data as parsed by axios
StandardResponse(s) ==
    /\ s \in live /\ pc[s] = "net"
    /\ op[s].via = "request" /\ ~IsReportEndpoint(op[s].url)
    /\ pc' = [pc EXCEPT ![s] = "done"]
    /\ \E r \in StandardResults :
         /\ res' = [res EXCEPT ![s] = r]
         /\ reply' = [reply EXCEPT ![s] = ReplyFor(op[s], r, call[s])]
    /\ op' = [op EXCEPT ![s].responded = TRUE]
    /\ UNCHANGED <<live, config, tokenCalls, netCalls, call, clock, tmpFiles, faultCount>>

\* downloadFromUrl, lines 173-177: { data, contentType, size }
DownloadFromUrlResponse(s) ==
    /\ s \in live /\ pc[s] = "net"
    /\ op[s].via = "downloadFromUrl"
    /\ pc' = [pc EXCEPT ![s] = "done"]
    /\ res' = [res EXCEPT ![s] = ReturnedJson("segment")]
    /\ reply' = [reply EXCEPT ![s] = ReplyFor(op[s], ReturnedJson("segment"), call[s])]
    /\ op' = [op EXCEPT ![s].responded = TRUE]
    /\ UNCHANGED <<live, config, tokenCalls, netCalls, call, clock, tmpFiles, faultCount>>

\* request, lines 48-143 on a report endpoint: the response buffer arrives and
\* the rest of request runs to its return or throw without suspending.
\* rnd is the random suffix, flt the I/O faults the pass meets.
ReportResponseAwaitsWhileStaged(s, buffers, rnds, faults) ==
    /\ s \in live /\ pc[s] = "net"
    /\ op[s].via = "request" /\ IsReportEndpoint(op[s].url)
    /\ \E rnd \in rnds : tmpFiles' = tmpFiles \cup {TempPath(clock, rnd, "gz")}
    /\ UNCHANGED <<live, config, pc, op, tokenCalls, netCalls, call, res, clock, faultCount,
                   reply>>
ReportResponseFrom(s, buffers, rnds, faults) ==
    /\ s \in live /\ pc[s] = "net"
    /\ op[s].via = "request" /\ IsReportEndpoint(op[s].url)
    /\ \E buffer \in buffers, rnd \in rnds, flt \in faults :
         /\ IF IsGzip(buffer) THEN faultCount + FaultsIn(flt) <= MaxFaults
                              ELSE flt = NoFaults /\ rnd = 0
         /\ LET r == ResolveReportPayload(buffer, clock, rnd, flt, tmpFiles) IN
              /\ tmpFiles' = r.files
              /\ res' = [res EXCEPT ![s] = r.result]
              /\ reply' = [reply EXCEPT ![s] = ReplyFor(op[s], r.result, call[s])]
         /\ faultCount' = faultCount + FaultsIn(flt)
         /\ op' = [op EXCEPT ![s].responded = TRUE, ![s].buffer = buffer, ![s].flt = flt]
    /\ pc' = [pc EXCEPT ![s] = "done"]
    /\ UNCHANGED <<live, config, tokenCalls, netCalls, call, clock>>

\* the response of a report request, over all buffers, suffixes and faults
ReportResponse(s) == ReportResponseFrom(s, ResponseBuffers, RandomSamples, FaultChoices)

\* downloadReport, lines 86-113: the response buffer arrives
DownloadReportResponse(s) ==
    /\ s \in live /\ pc[s] = "net"
    /\ op[s].via = "downloadReport"
    /\ pc' = [pc EXCEPT ![s] = "done"]
    /\ \E buffer \in ResponseBuffers :
         /\ res' = [res EXCEPT ![s] = ResolveInMemory(buffer)]
         /\ reply' = [reply EXCEPT ![s] =
                        ReplyFor(op[s], ResolveInMemory(buffer), call[s])]
         /\ op' = [op EXCEPT ![s].responded = TRUE, ![s].buffer = buffer]
    /\ UNCHANGED <<live, config, tokenCalls, netCalls, call, clock, tmpFiles, faultCount>>

\* the caller has taken the settled result; the slot is free again
Settle(s) ==
    /\ s \in live /\ pc[s] = "done"
    /\ pc' = [pc EXCEPT ![s] = "idle"]
    /\ op' = [op EXCEPT ![s] = NoOp]
    /\ tokenCalls' = [tokenCalls EXCEPT ![s] = 0]
    /\ netCalls' = [netCalls EXCEPT ![s] = 0]
    /\ call' = [call EXCEPT ![s] = NoCall]
    /\ res' = [res EXCEPT ![s] = NoResult]
    /\ reply' = [reply EXCEPT ![s] = NoReply]
    /\ UNCHANGED <<live, config, clock, tmpFiles, faultCount>>

Next ==
    \/ \E s \in AllSlots : CallRequest(s)
    \/ \E s \in AllSlots : CallSalesReport(s)
    \/ \E s \in AllSlots : CallFinanceReport(s)
    \/ \E s \in AllSlots : CallToolListApps(s)
    \/ \E s \in AllSlots : CallToolGetAppInfo(s)
    \/ \E s \in AllSlots : CallToolDownloadSegment(s)
    \/ \E s \in AllSlots : CallToolSalesReport(s)
    \/ \E s \in AllSlots : CallToolFinanceReport(s)
    \/ \E s \in AllSlots : CallToolUnknown(s)
    \/ \E s \in AllSlots : ListTools(s)
    \/ \E s \in AllSlots : TokenIssued(s)
    \/ \E s \in AllSlots : TokenFailed(s)
    \/ \E s \in AllSlots : NetworkError(s)
    \/ \E s \in AllSlots : StandardResponse(s)
    \/ \E s \in AllSlots : DownloadFromUrlResponse(s)
    \/ \E s \in AllSlots : ReportResponse(s)
    \/ \E s \in AllSlots : DownloadReportResponse(s)
    \/ \E s \in AllSlots : Settle(s)

Spec == Init /\ [][Next]_vars

(***************************************************************************)
(* Concurrent report requests.  Both slots are in use: while one            *)
(* invocation of request awaits its token or its response, the other runs. *)
(* The clock (Date.now(), in milliseconds) advances between steps.         *)
(***************************************************************************)
MaxClock == 1

\* the buffers, suffixes and faults of the concurrent report requests
ConcBuffers == {Gzip(<<65>>), Gzip(<<0>>), <<GzipMagic1, GzipMagic2>>, <<65, 0>>}
ConcFaults == {NoFaults, [io |-> "none", unlink |-> "gz"], [io |-> "none", unlink |-> "txt"],
               [io |-> "txtPartial", unlink |-> "none"],
               [io |-> "read", unlink |-> "txt"]}

ConcInit ==
    /\ live = AllSlots
    /\ config = [vendorNumber |-> NoValue]
    /\ pc = [s \in AllSlots |-> "idle"]
    /\ op = [s \in AllSlots |-> NoOp]
    /\ tokenCalls = [s \in AllSlots |-> 0]
    /\ netCalls = [s \in AllSlots |-> 0]
    /\ call = [s \in AllSlots |-> NoCall]
    /\ res = [s \in AllSlots |-> NoResult]
    /\ clock = 0
    /\ tmpFiles = {}
    /\ faultCount = 0
    /\ reply = [s \in AllSlots |-> NoReply]

\* client.get(url) on a report endpoint -> request('GET', url)
ConcCallReport(s) ==
    /\ CanStart(s)
    /\ BeginClientCall(s, [NoOp EXCEPT !.kind = "request", !.via = "request",
                                       !.method = "GET", !.url = UrlSales])
    /\ UNCHANGED <<live, config, clock, tmpFiles, faultCount>>

\* the response buffer of a concurrent report request arrives
ConcReportResponse(s) == ReportResponseFrom(s, ConcBuffers, RandomSamples, ConcFaults)

\* request, line 68: Date.now() has moved on by a millisecond
Tick ==
    /\ clock < MaxClock
    /\ clock' = clock + 1
    /\ UNCHANGED <<live, config, pc, op, tokenCalls, netCalls, call, res, tmpFiles,
                   faultCount, reply>>

ConcNext ==
    \/ \E s \in AllSlots : ConcCallReport(s)
    \/ \E s \in AllSlots : TokenIssued(s)
    \/ \E s \in AllSlots : TokenFailed(s)
    \/ \E s \in AllSlots : ConcReportResponse(s)
    \/ \E s \in AllSlots : Settle(s)
    \/ Tick

SpecConc == ConcInit /\ [][ConcNext]_vars

(***************************************************************************)
(* Properties.                                                             *)
(***************************************************************************)
\* the first two bytes of the buffer are 0x1F, 0x8B
HasMagic(buffer) == Len(buffer) >= 2 /\ buffer[1] = 31 /\ buffer[2] = 139

\* slot s holds an invocation of request on a report endpoint whose HTTP
\* response has arrived and has been decoded
ReportRequestDecoded(s) ==
    /\ pc[s] = "done" /\ op[s].via = "request" /\ op[s].responded
    /\ (UrlIncludes(op[s].url, "salesReports") \/ UrlIncludes(op[s].url, "financeReports"))

\* the text the gzip member in the buffer holds
GunzippedText(buffer) == Utf8Decode(Gunzip(buffer).bytes)

\* C1 as stated: for every report-endpoint response buffer that starts with
\* 0x1F,0x8B, request returns the gzip-decompressed content as text.
C1_AlwaysReturnsDecompressed ==
    \A s \in AllSlots :
        ReportRequestDecoded(s) /\ HasMagic(op[s].buffer)
        => res[s].kind = "return" /\ res[s].data = GunzippedText(op[s].buffer)

\* C1 (amended): for every report-endpoint response buffer that starts with
\* 0x1F,0x8B, request returns the gzip-decompressed content as text when the
\* buffer is a well-formed gzip member whose content is non-empty and free of
\* NUL and no staging write or read-back fails; in every other case it fails
\* with the decode error.  It never returns the raw bytes.
C1_DecompressedOrDecodeError ==
    \A s \in AllSlots :
        ReportRequestDecoded(s) /\ HasMagic(op[s].buffer)
        => LET text == GunzippedText(op[s].buffer) IN
           /\ IF /\ Gunzip(op[s].buffer).ok
                 /\ text # <<>> /\ ~Contains(text, 0)
                 /\ op[s].flt.io = "none"
              THEN res[s].kind = "return" /\ res[s].data = text
              ELSE res[s].kind = "throw" /\ res[s].err.code = "decode"
           /\ res[s].kind = "return" => res[s].data # Utf8Decode(op[s].buffer)

\* C1 witness: a gzip response has been decompressed and returned as text
C1_Witness ==
    \E s \in AllSlots :
        /\ ReportRequestDecoded(s) /\ HasMagic(op[s].buffer)
        /\ res[s].kind = "return" /\ res[s].data = <<65, 65533>>

\* C2 as stated: a report-endpoint response without the magic number whose
\* text begins with "{" and parses as JSON with an errors list makes request
\* fail with the domain error; the text is never returned.
C2_ErrorDocumentFails ==
    \A s \in AllSlots :
        /\ ReportRequestDecoded(s) /\ ~HasMagic(op[s].buffer)
        /\ StartsWith(Utf8Decode(op[s].buffer), <<123>>)
        /\ JsonParse(Utf8Decode(op[s].buffer)).hasErrors
        => res[s].kind = "throw" /\ res[s].err.code = "api-error"

\* C3: a report-endpoint response without the magic number (buffers shorter
\* than two bytes included) whose text does not begin with "{" is returned
\* decoded as text, unchanged, without an error and without staging.
C3_PlainTextReturnedUnchanged ==
    \A s \in AllSlots :
        /\ ReportRequestDecoded(s) /\ ~HasMagic(op[s].buffer)
        /\ ~StartsWith(Utf8Decode(op[s].buffer), <<123>>)
        => /\ res[s].kind = "return"
           /\ res[s].data = Utf8Decode(op[s].buffer)
           /\ ~res[s].stage.staged

\* C3 witness: a one-byte buffer holding half of the magic number came back
\* as text
C3_Witness ==
    \E s \in AllSlots :
        /\ ReportRequestDecoded(s) /\ op[s].buffer = <<31>>
        /\ res[s].kind = "return" /\ res[s].data = <<31>>

\* the staged paths of the decompression attempt slot s has finished
AttemptDone(s) == pc[s] = "done" /\ res[s].stage.staged
StagedGz(s) == <<"apple_report", res[s].stage.ts, res[s].stage.rnd, "gz">>
StagedTxt(s) == <<"apple_report", res[s].stage.ts, res[s].stage.rnd, "txt">>

\* C4 as stated: after any decompression attempt through the temp files, a
\* failing removal included, neither staged file remains.
C4_NothingRemainsEver ==
    \A s \in AllSlots :
        AttemptDone(s) => StagedGz(s) \notin tmpFiles /\ StagedTxt(s) \notin tmpFiles

\* C4 (amended): after any decompression attempt through the temp files in
\* which no removal fails (successful return, gunzip failure, write or
\* read-back failure, rejection of the content), neither staged file remains.
C4_NothingRemainsUnlessRemovalFails ==
    \A s \in AllSlots :
        AttemptDone(s) /\ op[s].flt.unlink = "none"
        => StagedGz(s) \notin tmpFiles /\ StagedTxt(s) \notin tmpFiles

\* C4 witness: an attempt that failed after both files had been created has
\* removed them
C4_Witness ==
    \E s \in AllSlots :
        /\ AttemptDone(s) /\ op[s].flt = [io |-> "read", unlink |-> "none"]
        /\ res[s].kind = "throw"
        /\ StagedGz(s) \notin tmpFiles /\ StagedTxt(s) \notin tmpFiles

IsReportTool(s) == op[s].kind \in {"sales", "finance"}

\* the vendor number the invocation in slot s works with
VendorOf(s) ==
    IF op[s].args.vendorNumber = NoValue THEN config.vendorNumber
    ELSE op[s].args.vendorNumber

\* the arguments other than the report date let the invocation reach the
\* date checks: a vendor number is there, and so is the region of a finance
\* report
ReachesDateChecks(s) ==
    /\ VendorOf(s) \notin {NoValue, ""}
    /\ op[s].kind = "finance" => op[s].args.regionCode \notin {NoValue, ""}

\* no token was asked for and no HTTP call was issued by the invocation in s
NothingSent(s) == tokenCalls[s] = 0 /\ netCalls[s] = 0 /\ ~call[s].issued

ValidationCodes == {"vendor-required", "missing-required", "date-format", "future-date"}

\* C6: for every report-date string that does not match ^\d{4}-\d{2}$,
\* downloadSalesReport and downloadFinanceReport fail without a token
\* generation or an HTTP call; when the other arguments are in order the
\* failure is the validation error of the date (its format, or its absence
\* when the string is empty).
C6_MalformedDateRejected ==
    \A s \in AllSlots :
        /\ IsReportTool(s)
        /\ op[s].args.reportDate.present
        /\ op[s].args.reportDate.v \in MalformedDates
        => /\ pc[s] = "done" /\ res[s].kind = "throw"
           /\ res[s].err.code \in ValidationCodes
           /\ NothingSent(s)
           /\ ReachesDateChecks(s)
              => res[s].err.code = (IF op[s].args.reportDate.v = <<>>
                                    THEN "missing-required" ELSE "date-format")

\* C6 witness: a date with a day part was rejected for its format
C6_Witness ==
    \E s \in AllSlots :
        /\ op[s].kind = "finance" /\ op[s].args.reportDate = Some(DWithDay)
        /\ pc[s] = "done" /\ res[s].err.code = "date-format" /\ NothingSent(s)

\* the month a well-formed report date denotes, in months since year 0
\* (month 13 is January of the next year, month 00 December of the year before)
DenotedMonth(d) ==
    CASE d = D2023m12 -> 2023 * 12 + 11
      [] d = D2024m01 -> 2024 * 12
      [] d = D2024m02 -> 2024 * 12 + 1
      [] d = D2024m13 -> 2025 * 12
      [] d = D2024m00 -> 2023 * 12 + 11
      [] d = D2025m01 -> 2025 * 12
      [] d = D0099m01 -> 99 * 12

HasWellFormedDate(s) ==
    op[s].args.reportDate.present /\ op[s].args.reportDate.v \in WellFormedDates

\* C7: for every well-formed report date that denotes a month later than the
\* current month, both report tools fail without a token generation or an
\* HTTP call, with the future-date message when the other arguments are in
\* order; a report date equal to the current month is never rejected as future.
C7_FutureDateRejected ==
    \A s \in AllSlots :
        IsReportTool(s) /\ HasWellFormedDate(s)
        => /\ DenotedMonth(op[s].args.reportDate.v) > op[s].now.m
              => /\ pc[s] = "done" /\ res[s].kind = "throw"
                 /\ NothingSent(s)
                 /\ ReachesDateChecks(s) => res[s].err.code = "future-date"
           /\ DenotedMonth(op[s].args.reportDate.v) = op[s].now.m
              => /\ res[s].err.code # "future-date"
                 /\ ReachesDateChecks(s) => tokenCalls[s] = 1

\* C7 witness: February 2024 asked for in January 2024 was rejected as future
C7_Witness ==
    \E s \in AllSlots :
        /\ op[s].kind = "sales" /\ op[s].args.reportDate = Some(D2024m02)
        /\ op[s].now.m = 2024 * 12
        /\ pc[s] = "done" /\ res[s].err.code = "future-date" /\ NothingSent(s)

\* the filters a sales report request passes to the client
ExpectedSalesFilters(s) ==
    [reportDate |-> op[s].args.reportDate.v, reportType |-> "SALES",
     reportSubType |-> "SUMMARY", frequency |-> "MONTHLY",
     regionCode |-> NoValue, vendorNumber |-> VendorOf(s)]

\* C8: a sales report request with a well-formed report date that is not in
\* the future and a vendor number passes validation and reaches the client:
\* the client asks for its token, and the HTTP call it then issues goes to the
\* sales-report path and carries the report filters.
C8_ValidSalesRequestReachesNetwork ==
    \A s \in AllSlots :
        /\ op[s].kind = "sales" /\ HasWellFormedDate(s)
        /\ DenotedMonth(op[s].args.reportDate.v) <= op[s].now.m
        /\ VendorOf(s) \notin {NoValue, ""}
        => /\ res[s].err.code \notin ValidationCodes
           /\ pc[s] \in {"token", "net", "done"}
           /\ tokenCalls[s] = 1
           /\ pc[s] = "token" => netCalls[s] = 0
           /\ (pc[s] \in {"net", "done"} /\ res[s].err.code # "auth")
              => /\ netCalls[s] = 1 /\ call[s].issued
                 /\ call[s].method = "GET" /\ call[s].url = <<"salesReports">>
                 /\ call[s].params = [filter |-> ExpectedSalesFilters(s)]

\* C8 witness: the HTTP call for January 2024, asked for in January 2024, is out
C8_Witness ==
    \E s \in AllSlots :
        /\ op[s].kind = "sales" /\ op[s].args.reportDate = Some(D2024m01)
        /\ op[s].now.m = 2024 * 12
        /\ pc[s] = "net" /\ call[s].issued /\ call[s].url = <<"salesReports">>
        /\ call[s].params.filter.reportDate = D2024m01
        /\ call[s].params.filter.vendorNumber = "V-config"

\* C9: every invocation of request asks for exactly one token and issues at
\* most one HTTP call, the call only after the token: none while the token is
\* awaited, none when the token generation fails, one otherwise; a failed
\* token generation, HTTP call or decoding ends the invocation with a throw.
C9_OneTokenAtMostOneCall ==
    \A s \in AllSlots :
        op[s].via = "request"
        => /\ tokenCalls[s] = 1
           /\ netCalls[s] <= 1
           /\ netCalls[s] = 1 <=> (pc[s] = "net" \/ (pc[s] = "done" /\ res[s].err.code # "auth"))
           /\ call[s].issued <=> netCalls[s] = 1
           /\ (pc[s] = "done" /\ res[s].err.code \in {"auth", "axios", "decode"})
              => res[s].kind = "throw"
           /\ (pc[s] = "done" /\ ~op[s].responded) => res[s].kind = "throw"

\* C9 witness: an invocation of request ended with the failure of its one HTTP call
C9_Witness ==
    \E s \in AllSlots :
        /\ op[s].via = "request" /\ pc[s] = "done"
        /\ res[s].kind = "throw" /\ res[s].err.code = "axios" /\ res[s].err.status = 500
        /\ tokenCalls[s] = 1 /\ netCalls[s] = 1

\* the path of an issued call is a report path
IsReportPath(url) == \E i \in DOMAIN url : url[i] \in {"salesReports", "financeReports"}

\* C10 as stated: every issued call to a report path uses raw-byte transport
\* and carries Accept: application/a-gzip, application/json besides
\* Authorization and Content-Type; every other call uses structured transport
\* and carries no Accept header.
C10_TransportMatchesEndpoint ==
    \A s \in AllSlots :
        call[s].issued
        => IF IsReportPath(call[s].url)
           THEN /\ call[s].responseType = "arraybuffer"
                /\ call[s].accept = "application/a-gzip, application/json"
                /\ call[s].authorization # NoValue
                /\ call[s].contentType = "application/json"
           ELSE /\ call[s].responseType = "json"
                /\ call[s].accept = NoValue

\* C10, restricted to the calls request issues
C10_RequestTransportMatchesEndpoint ==
    \A s \in AllSlots :
        call[s].issued /\ call[s].via = "request"
        => IF IsReportPath(call[s].url)
           THEN /\ call[s].responseType = "arraybuffer"
                /\ call[s].accept = "application/a-gzip, application/json"
                /\ call[s].authorization # NoValue
                /\ call[s].contentType = "application/json"
           ELSE /\ call[s].responseType = "json"
                /\ call[s].accept = NoValue

(***************************************************************************)
(* Properties of the tool boundary.                                        *)
(***************************************************************************)
\* slot s holds a finished tool call whose handler threw the axios error of a
\* failed HTTP call with the given status
ToolCallFailedWith(s, status) ==
    /\ pc[s] = "done" /\ op[s].tool \in KnownTools
    /\ res[s].kind = "throw" /\ res[s].err.type = "AxiosError"
    /\ res[s].err.status = status

\* the reply in slot s is a flagged error response whose one text item is text
RepliesError(s, text) ==
    /\ reply[s].kind = "response" /\ reply[s].isError
    /\ reply[s].content = <<[type |-> "text", text |-> text]>>

\* error.config of a call to url issued with the given response type
ConfigOf(url, responseType) == [NoCall EXCEPT !.url = url, !.responseType = responseType]

\* C11: a failed call with status 404 on a sales-report path gets the text
\* with the three causes (future date, no data, not yet generated), on a
\* finance-report path the finance text with its generation lag, whether or
\* not the response carries a structured error (parsed or not), and never the
\* generic not-found message.
C11_ReportNotFoundDiagnostic ==
    /\ \A s \in AllSlots :
         ToolCallFailedWith(s, 404) /\ IsReportPath(call[s].url)
         => /\ RepliesError(s, IF UrlIncludes(call[s].url, "salesReports")
                               THEN SalesNotFoundText ELSE FinanceNotFoundText)
            /\ reply[s].content[1].text[1] # "Resource not found (404): "
    /\ \A body \in ErrorBodies, responseType \in {"json", "arraybuffer"} :
         /\ ErrorMessage(AxiosError(404, body, ConfigOf(UrlSales, responseType)),
                         ConfigOf(UrlSales, responseType)) = SalesNotFoundText
         /\ ErrorMessage(AxiosError(404, body, ConfigOf(UrlFinance, responseType)),
                         ConfigOf(UrlFinance, responseType)) = FinanceNotFoundText

\* C11 witness: a 404 with a structured error on the sales-report path was
\* answered with the three causes
C11_Witness ==
    \E s \in AllSlots :
        /\ ToolCallFailedWith(s, 404) /\ op[s].tool = ToolSalesReport
        /\ res[s].err.body.detail = "D"
        /\ RepliesError(s, SalesNotFoundText)

\* the call of slot s is an app-detail call issued with include parameters
IsAppDetailWithIncludes(s) == UrlIncludesAppsSlash(call[s].url) /\ call[s].include # <<>>

\* the generic diagnostic of status 404 (naming the path) and of status 400
GenericText(status, url) ==
    IF status = 404 THEN <<"Resource not found (404): ">> \o UrlText(url)
    ELSE BadRequestText

\* slot s holds a failed tool call of the kind C12 is about
PlainNotFoundOrBadRequest(s) ==
    \/ ToolCallFailedWith(s, 404) /\ ~IsReportPath(call[s].url)
    \/ ToolCallFailedWith(s, 400) /\ ~IsAppDetailWithIncludes(s)

\* C12 as stated: for a failed call with status 404 on a non-report path, or
\* status 400 on a call that is not an app-detail call with includes, the
\* diagnostic is the detail of the structured error the response carries when
\* there is one, and the generic message of the status otherwise.
C12_DetailOrGeneric ==
    \A s \in AllSlots :
        PlainNotFoundOrBadRequest(s)
        => RepliesError(s, IF Truthy(res[s].err.body.detail)
                           THEN <<res[s].err.body.detail>>
                           ELSE GenericText(res[s].err.status, call[s].url))

\* C12, restricted to calls with structured transport (the standard
\* endpoints), whose error body axios parses
C12_DetailOrGenericWhenParsed ==
    \A s \in AllSlots :
        PlainNotFoundOrBadRequest(s) /\ call[s].responseType # "arraybuffer"
        => RepliesError(s, IF Truthy(res[s].err.body.detail)
                           THEN <<res[s].err.body.detail>>
                           ELSE GenericText(res[s].err.status, call[s].url))

\* C13: a failed call with status 400 on an app-detail path issued with
\* include parameters gets the invalid-include explanation, whatever
\* structured error the response carries; a 400 on an app-detail path
\* without include parameters does not get it.
C13_InvalidIncludeExplanation ==
    \A s \in AllSlots :
        ToolCallFailedWith(s, 400) /\ UrlIncludesAppsSlash(call[s].url)
        => IF call[s].include # <<>>
           THEN RepliesError(s, InvalidIncludesText)
           ELSE /\ reply[s].kind = "response" /\ reply[s].isError
                /\ reply[s].content[1].text # InvalidIncludesText

\* C13 witness: get_app_info with two includes came back 400 with a
\* structured error and was answered with the explanation
C13_Witness ==
    \E s \in AllSlots :
        /\ ToolCallFailedWith(s, 400) /\ op[s].tool = ToolGetAppInfo
        /\ call[s].url = <<"apps", "123">> /\ call[s].include = <<"builds", ",", "prices">>
        /\ res[s].err.api.detail = "D"
        /\ RepliesError(s, InvalidIncludesText)

\* the diagnostic C14 expects for a failed call whose response carries the
\* structured error body: formatted from the detail, or from the title when
\* there is no detail
FormattedFromBody(text, body) ==
    /\ Len(text) >= 1 /\ text[1] = "App Store Connect API error: "
    /\ Truthy(body.detail) => text = <<"App Store Connect API error: ", body.detail>>
    /\ (~Truthy(body.detail) /\ Truthy(body.title))
       => text = <<"App Store Connect API error: ", body.title>>

\* the generic 'Request failed with status N' message
RequestFailedText(status, msg) ==
    <<"Request failed with status ", StatusText(status), ": ">> \o msg

\* C14 as stated: a failed call with a status other than 400 and 404 gets a
\* diagnostic formatted from the detail (or else the title) of the structured
\* error its response carries, or, when the response carries none, the
\* generic 'Request failed with status N' message; on report endpoints as on
\* standard endpoints.
C14_OtherStatusDiagnostic ==
    \A s \in AllSlots :
        ToolCallFailedWith(s, 500)
        => /\ reply[s].kind = "response" /\ reply[s].isError
           /\ Len(reply[s].content) = 1
           /\ IF res[s].err.body.present
              THEN FormattedFromBody(reply[s].content[1].text, res[s].err.body)
              ELSE reply[s].content[1].text = RequestFailedText(500, res[s].err.msg)

\* C14, restricted to calls with structured transport (the standard
\* endpoints), whose error body axios parses
C14_OtherStatusDiagnosticWhenParsed ==
    \A s \in AllSlots :
        ToolCallFailedWith(s, 500) /\ call[s].responseType # "arraybuffer"
        => /\ reply[s].kind = "response" /\ reply[s].isError
           /\ Len(reply[s].content) = 1
           /\ IF res[s].err.body.present
              THEN FormattedFromBody(reply[s].content[1].text, res[s].err.body)
              ELSE reply[s].content[1].text = RequestFailedText(500, res[s].err.msg)

\* the throw sites of the failures a tool call can meet: configuration,
\* validation, authentication, transport, decoding
FailureCodes ==
    {"reports-unavailable", "vendor-required", "missing-required", "date-format",
     "future-date", "invalid-include", "auth", "axios", "zlib"}

\* C15: for every known tool name and every failure raised while handling it,
\* the CallToolRequest handler returns a response flagged isError with exactly
\* one content item, of type text, and never lets the exception reach its
\* caller.
C15_FailuresBecomeErrorResponses ==
    \A s \in AllSlots :
        op[s].tool \in KnownTools
        => /\ reply[s].kind # "throw"
           /\ (pc[s] = "done" /\ res[s].kind = "throw")
              => /\ res[s].err.code \in FailureCodes
                 /\ reply[s].kind = "response" /\ reply[s].isError
                 /\ Len(reply[s].content) = 1
                 /\ reply[s].content[1].type = "text"
                 /\ reply[s].content[1].text = ErrorMessage(res[s].err, call[s])
           /\ (pc[s] = "done" /\ res[s].kind = "return")
              => reply[s].kind = "response" /\ ~reply[s].isError

\* C15 witness: a report that could not be decompressed was answered with a
\* flagged error response
C15_Witness ==
    \E s \in AllSlots :
        /\ op[s].tool = ToolFinanceReport /\ pc[s] = "done"
        /\ res[s].kind = "throw" /\ res[s].err.code = "zlib"
        /\ reply[s].kind = "response" /\ reply[s].isError
        /\ Len(reply[s].content) = 1

\* the classification the CallToolRequest handler gives a remote-API error
\* that reaches its outer catch
RemoteApiErrorCode == DispatchCatch(AxiosError(500, NoApiError, NoCall)).err.mcp

\* C16: a tool call whose name is not a case of the switch is rejected with
\* an McpError of code MethodNotFound, which is not the code used for
\* remote-API errors, and no handler, token generation or HTTP call runs.
C16_UnknownToolRejected ==
    \A s \in AllSlots :
        op[s].kind = "tool" /\ op[s].tool \notin KnownTools
        => /\ pc[s] = "done"
           /\ reply[s].kind = "throw" /\ reply[s].err.type = "McpError"
           /\ reply[s].err.mcp = "MethodNotFound"
           /\ reply[s].err.mcp # RemoteApiErrorCode
           /\ reply[s].err.msg = <<"Unknown tool: ", op[s].tool>>
           /\ res[s].kind = "none"
           /\ tokenCalls[s] = 0 /\ netCalls[s] = 0 /\ ~call[s].issued

\* C16 witness: a misspelt tool name was rejected
C16_Witness ==
    \E s \in AllSlots :
        /\ op[s].tool = "download_sales_reports" /\ pc[s] = "done"
        /\ reply[s].kind = "throw" /\ reply[s].err.mcp = "MethodNotFound"
        /\ tokenCalls[s] = 0 /\ netCalls[s] = 0

\* C17 as stated: a failed call that got no response (a transport error
\* without a status) is answered with the raw message of the error as the
\* diagnostic text.
C17_TransportErrorRawMessage ==
    \A s \in AllSlots :
        ToolCallFailedWith(s, 0) => RepliesError(s, res[s].err.msg)

\* C17, as the code has it: the raw message comes after the prefix of the
\* generic status message, with undefined for the status
C17_TransportErrorPrefixedMessage ==
    \A s \in AllSlots :
        ToolCallFailedWith(s, 0)
        => RepliesError(s, <<"Request failed with status ", "undefined", ": ">>
                           \o res[s].err.msg)

\* C18: when generateToken fails the invocation fails with the token error,
\* whose message is the diagnostic text of a tool call, and no HTTP call is
\* issued; in every invocation (request, downloadReport, downloadFromUrl) an
\* HTTP call is issued only after the one token generation has succeeded.
C18_TokenFailureSurfaced ==
    \A s \in AllSlots :
        /\ (pc[s] = "done" /\ res[s].err.code = "auth")
           => /\ res[s].kind = "throw" /\ res[s].err = TokenError
              /\ netCalls[s] = 0 /\ ~call[s].issued
              /\ op[s].tool \in KnownTools => RepliesError(s, TokenError.msg)
        /\ pc[s] = "token" => netCalls[s] = 0 /\ ~call[s].issued
        /\ (call[s].issued \/ netCalls[s] > 0)
           => /\ tokenCalls[s] = 1 /\ pc[s] \in {"net", "done"}
              /\ res[s].err.code # "auth"
              /\ call[s].authorization = "Bearer token"

\* C18 witness: a segment download whose token generation failed was answered
\* with the token error's message, without an HTTP call
C18_Witness ==
    \E s \in AllSlots :
        /\ op[s].tool = ToolDownloadSegment /\ op[s].via = "downloadFromUrl"
        /\ pc[s] = "done" /\ res[s].err.code = "auth"
        /\ RepliesError(s, <<"token generation failed">>)
        /\ tokenCalls[s] = 1 /\ netCalls[s] = 0

\* slot s holds a sales or finance report request, through the tool boundary
\* or on the handler object
IsReportRequest(s) ==
    \/ op[s].kind \in {"sales", "finance"}
    \/ op[s].kind = "tool" /\ op[s].tool \in {ToolSalesReport, ToolFinanceReport}

\* the request in slot s is served with vendor number v: it is not turned
\* down for want of a vendor number, and the HTTP call it issues carries v
ServedWithVendor(s, v) ==
    /\ res[s].err.code \notin {"reports-unavailable", "vendor-required"}
    /\ call[s].issued => call[s].params.filter.vendorNumber = v

\* C19 as stated: a sales or finance report tool call that supplies a vendor
\* number in its arguments is served with that vendor number, also when none
\* is configured; a call that supplies none is served with the configured one.
C19_VendorFromArgsOrConfig ==
    \A s \in AllSlots :
        IsReportRequest(s)
        => /\ Truthy(op[s].args.vendorNumber)
              => ServedWithVendor(s, op[s].args.vendorNumber)
           /\ (op[s].args.vendorNumber = NoValue /\ Truthy(config.vendorNumber))
              => ServedWithVendor(s, config.vendorNumber)

\* C19, for the handlers alone (downloadSalesReport and downloadFinanceReport
\* called on the handler object)
C19_HandlerVendorFromArgsOrConfig ==
    \A s \in AllSlots :
        op[s].kind \in {"sales", "finance"}
        => /\ Truthy(op[s].args.vendorNumber)
              => ServedWithVendor(s, op[s].args.vendorNumber)
           /\ (op[s].args.vendorNumber = NoValue /\ Truthy(config.vendorNumber))
              => ServedWithVendor(s, config.vendorNumber)

\* C20: a sales or finance report request with no vendor number, neither in
\* its arguments nor in the configuration, fails with a configuration error
\* before any token generation or HTTP call, whatever its other arguments.
C20_NoVendorFailsEarly ==
    \A s \in AllSlots :
        /\ IsReportRequest(s)
        /\ ~Truthy(op[s].args.vendorNumber) /\ ~Truthy(config.vendorNumber)
        => /\ pc[s] = "done" /\ res[s].kind = "throw"
           /\ res[s].err.code \in {"reports-unavailable", "vendor-required"}
           /\ NothingSent(s)
           /\ op[s].kind = "tool" => reply[s].kind = "response" /\ reply[s].isError

\* C20 witness: a finance report tool call without vendor number, region or
\* a well-formed date was turned down for the missing vendor number
C20_Witness ==
    \E s \in AllSlots :
        /\ op[s].tool = ToolFinanceReport
        /\ op[s].args = [vendorNumber |-> NoValue, reportDate |-> Some(DSlash),
                         regionCode |-> NoValue]
        /\ config.vendorNumber = NoValue
        /\ pc[s] = "done" /\ res[s].err.code = "reports-unavailable"
        /\ NothingSent(s)

(***************************************************************************)
(* Properties of getAppInfo.                                               *)
(***************************************************************************)
\* the text (a sequence of strings) has the string among its pieces
Mentions(text, str) == \E i \in DOMAIN text : text[i] = str

\* slot s holds a get_app_info call with an app id
IsAppInfoCall(s) == op[s].tool = ToolGetAppInfo /\ ~IsMissingField(op[s].app.appId)

\* the include values of the call in slot s that are not permitted
NotPermitted(s) ==
    IF op[s].app.include.present
    THEN {op[s].app.include.v[i] : i \in DOMAIN op[s].app.include.v}
         \ {VALID_APP_INCLUDES[i] : i \in DOMAIN VALID_APP_INCLUDES}
    ELSE {}

\* C21: an app-detail request (with an app id) whose include list has a
\* value outside the permitted set fails before any token generation or HTTP
\* call, with a message that names every invalid value and every permitted
\* value; a request whose include values are all permitted, or absent, is not
\* rejected by this check and goes on to the client.  Every request with an
\* invalid include value fails before the network, with or without app id.
C21_InvalidIncludeRejected ==
    \A s \in AllSlots :
        /\ (op[s].tool = ToolGetAppInfo /\ NotPermitted(s) # {})
           => pc[s] = "done" /\ res[s].kind = "throw" /\ NothingSent(s)
        /\ IsAppInfoCall(s)
           => IF NotPermitted(s) # {}
              THEN /\ res[s].err.code = "invalid-include"
                   /\ \A inc \in NotPermitted(s) : Mentions(res[s].err.msg, inc)
                   /\ \A i \in DOMAIN VALID_APP_INCLUDES :
                        Mentions(res[s].err.msg, VALID_APP_INCLUDES[i])
                   /\ RepliesError(s, res[s].err.msg)
              ELSE /\ res[s].err.code # "invalid-include"
                   /\ tokenCalls[s] = 1

\* C21 witness: a request with one permitted and one invalid include value
\* was rejected with a message naming the invalid one
C21_Witness ==
    \E s \in AllSlots :
        /\ IsAppInfoCall(s) /\ op[s].app.include = Some(<<"builds", "perfPowerMetrics">>)
        /\ pc[s] = "done" /\ res[s].err.code = "invalid-include"
        /\ Mentions(res[s].err.msg, "perfPowerMetrics")
        /\ Mentions(res[s].err.msg, "reviewSubmissions")
        /\ NothingSent(s)

(***************************************************************************)
(* Properties of the staging pass of request (continued).                  *)
(***************************************************************************)
StageNames == {"writeGz", "gunzip", "writeTxt", "readTxt", "validate"}

\* the last stage a staging pass entered before its cleanup
FailedStage(log) ==
    log[CHOOSE i \in DOMAIN log :
            /\ log[i] \in StageNames
            /\ \A j \in DOMAIN log : log[j] \in StageNames => j <= i]

\* the failures of all staging passes: the message raised and the stage left
StagingFailures ==
    {[msg |-> r.result.err.msg, stage |-> FailedStage(r.result.stage.log)] :
        r \in {x \in {StageDecompress(b, 0, 0, f, {}) :
                        b \in GzipBuffers \cup BrokenGzipBuffers, f \in FaultChoices} :
                 x.result.kind = "throw"}}

DecodePrefix == "Failed to decompress report data: "
InvalidCharacters == "Decompressed data contains invalid characters"

\* slot s holds a decoded report request whose gzip member holds text with NUL
HoldsNulText(s) ==
    /\ ReportRequestDecoded(s) /\ HasMagic(op[s].buffer)
    /\ Gunzip(op[s].buffer).ok
    /\ Contains(GunzippedText(op[s].buffer), 0)

\* the message of a failed staging pass tells the stage that failed
ErrorIdentifiesStage(s) ==
    \A f \in StagingFailures :
        f.msg = res[s].err.msg => f.stage = FailedStage(res[s].stage.log)

\* C22 as stated: a decompressed text with an embedded NUL makes the request
\* fail with the decode error and is never returned, and the decode error of
\* every failed staging pass identifies the stage that failed.
C22_NulRejectedWithStage ==
    \A s \in AllSlots :
        /\ HoldsNulText(s) => res[s].kind = "throw" /\ res[s].err.code = "decode"
        /\ (AttemptDone(s) /\ res[s].kind = "throw") => ErrorIdentifiesStage(s)

\* C22 (amended): a decompressed text with an embedded NUL makes the request
\* fail with the decode error and no text is returned; when no earlier write
\* or read-back failed the message is the fixed prefix followed by
\* 'Decompressed data contains invalid characters'.  Every decode error of
\* the staging pass is the fixed prefix followed by the message of the
\* underlying failure and by nothing else; a rejection by the validation is
\* told by its message, a failing write is not.
C22_NulRejected ==
    \A s \in AllSlots :
        /\ HoldsNulText(s)
           => /\ res[s].kind = "throw" /\ res[s].err.code = "decode"
              /\ res[s].data = <<>>
              /\ op[s].flt.io = "none"
                 => res[s].err.msg = <<DecodePrefix, InvalidCharacters>>
        /\ (AttemptDone(s) /\ res[s].kind = "throw")
           => /\ Len(res[s].err.msg) = 2 /\ res[s].err.msg[1] = DecodePrefix
              /\ (FailedStage(res[s].stage.log) = "validate"
                  <=> res[s].err.msg[2] = InvalidCharacters)
              /\ FailedStage(res[s].stage.log) = "validate" => ErrorIdentifiesStage(s)

\* C22 witness: the text "A\0" was decompressed, read back and rejected
C22_Witness ==
    \E s \in AllSlots :
        /\ HoldsNulText(s) /\ op[s].buffer = Gzip(<<65, 0>>) /\ op[s].flt.io = "none"
        /\ res[s].kind = "throw"
        /\ res[s].err.msg = <<DecodePrefix, InvalidCharacters>>
        /\ FailedStage(res[s].stage.log) = "validate"

(***************************************************************************)
(* Properties of the tool listing.                                         *)
(***************************************************************************)
\* slot s holds an answered tools/list request
ToolsWereListed(s) == pc[s] = "done" /\ op[s].kind = "listTools"

\* the names of the tools of the listing in slot s, in order
ListedNames(s) == [i \in DOMAIN reply[s].content |-> reply[s].content[i].name]

\* a vendor number is configured at process level
VendorConfigured == config.vendorNumber # NoValue /\ config.vendorNumber # ""

\* C23: the sales and the finance report tool are listed exactly when a vendor
\* number is configured at process level: without one the listing is the base
\* tools only, with one it is the base tools followed by the two report tools.
C23_ReportToolsListedIffVendor ==
    \A s \in AllSlots :
        ToolsWereListed(s)
        => /\ reply[s].kind = "tools"
           /\ (Mentions(ListedNames(s), "download_sales_report") <=> VendorConfigured)
           /\ (Mentions(ListedNames(s), "download_finance_report") <=> VendorConfigured)
           /\ ~VendorConfigured
              => ListedNames(s) = BaseToolNames /\ Len(ListedNames(s)) = 18
           /\ VendorConfigured
              => /\ ListedNames(s) = BaseToolNames
                                     \o <<"download_sales_report", "download_finance_report">>
                 /\ Len(ListedNames(s)) = 20

\* C23 witness: with a configured vendor number the listing ends with the two
\* report tools
C23_Witness ==
    \E s \in AllSlots :
        /\ ToolsWereListed(s) /\ config.vendorNumber = "V-config"
        /\ Len(ListedNames(s)) = 20
        /\ ListedNames(s)[19] = "download_sales_report"
        /\ ListedNames(s)[20] = "download_finance_report"

\* the staging pass of slot s had a removal that failed
RemovalFailed(s) == AttemptDone(s) /\ res[s].stage.unlinkFailed

\* the result of the staging pass of slot s had every removal succeeded
WithoutRemovalFault(s) ==
    StageDecompress(op[s].buffer, res[s].stage.ts, res[s].stage.rnd,
                    [op[s].flt EXCEPT !.unlink = "none"], {}).result

\* a failing removal changes neither the text returned nor the error raised
RemovalFailureNotEscalated(s) ==
    LET clean == WithoutRemovalFault(s) IN
    /\ res[s].kind = clean.kind
    /\ res[s].kind = "return"
       => res[s].data = clean.data /\ res[s].data = GunzippedText(op[s].buffer)
    /\ res[s].kind = "throw"
       => res[s].err = clean.err /\ res[s].err.code = "decode"

\* C24 as stated: a failing removal of a staged file is never escalated (the
\* success path still returns the text, the failure path raises the original
\* decode failure), and in both paths the removal failure is logged.
C24_NotEscalatedAlwaysLogged ==
    \A s \in AllSlots :
        RemovalFailed(s) => RemovalFailureNotEscalated(s) /\ res[s].stage.warned

\* C24 (amended): a failing removal of a staged file is never escalated: the
\* success path still returns the text and the failure path raises the
\* original decode failure.  The removal failure is logged on the success
\* path only; on the failure path it is ignored without a log line.
C24_NotEscalatedLoggedOnSuccess ==
    \A s \in AllSlots :
        RemovalFailed(s)
        => /\ RemovalFailureNotEscalated(s)
           /\ res[s].stage.warned <=> res[s].kind = "return"

\* C24 witness: the read-back failed, then the removal of the .gz file failed:
\* the read-back failure is what was raised, and the file is left
C24_Witness ==
    \E s \in AllSlots :
        /\ RemovalFailed(s) /\ op[s].flt = [io |-> "read", unlink |-> "gz"]
        /\ res[s].kind = "throw"
        /\ res[s].err.msg = <<DecodePrefix, "EIO: i/o error, read">>
        /\ ~res[s].stage.warned
        /\ StagedGz(s) \in tmpFiles

\* the steps of a staging pass that returns, in the order of the code
StagingOrder ==
    <<"writeGz", "gunzip", "writeTxt", "readTxt", "validate", "unlinkGz", "unlinkTxt",
      "return">>

\* the place of a step in that order (the throw ends a failing pass)
StepRank(step) ==
    IF step = "throw" THEN Len(StagingOrder) + 1
    ELSE CHOOSE i \in DOMAIN StagingOrder : StagingOrder[i] = step

\* the steps of the log were taken in the order of StagingOrder
InStagingOrder(log) ==
    \A i, j \in DOMAIN log : i < j => StepRank(log[i]) < StepRank(log[j])

\* C25: in every decompression through the temp files the steps are taken in
\* the order: write the raw bytes to the .gz file, decompress, write the
\* decompressed bytes to the .txt file, read them back, validate, remove the
\* staged files, return.  A pass that returns has taken the five staging
\* steps and the removal before the return (all eight steps when no removal
\* fails), and the text it returns is the read-back content of the .txt file,
\* not the bytes of the in-memory decompression.
C25_StagingOrder ==
    \A s \in AllSlots :
        AttemptDone(s)
        => LET log == res[s].stage.log IN
           /\ InStagingOrder(log)
           /\ log[1] = "writeGz"
           /\ log[Len(log)] = (IF res[s].kind = "return" THEN "return" ELSE "throw")
           /\ res[s].kind = "return"
              => /\ SubSeq(log, 1, 5) = SubSeq(StagingOrder, 1, 5)
                 /\ log[6] = "unlinkGz"
                 /\ ~res[s].stage.unlinkFailed => log = StagingOrder
                 /\ res[s].data = ReadBack(Gunzip(op[s].buffer).bytes)
                 /\ Gunzip(op[s].buffer).bytes = <<200>> => res[s].data # <<200>>

\* C25 witness: a pass took all eight steps and returned the read-back text
\* U+FFFD of the decompressed byte 0xC8
C25_Witness ==
    \E s \in AllSlots :
        /\ AttemptDone(s) /\ res[s].kind = "return"
        /\ res[s].stage.log = StagingOrder
        /\ Gunzip(op[s].buffer).bytes = <<200>>
        /\ res[s].data = <<ReplacementChar>>

(***************************************************************************)
(* Properties of concurrent report requests.                               *)
(***************************************************************************)
\* this step is the staging pass of the invocation in slot s
StagingStep(s) == pc[s] = "net" /\ pc'[s] = "done" /\ res'[s].stage.staged

\* the two paths the staging pass of this step names
StepPaths(s) ==
    {TempPath(res'[s].stage.ts, res'[s].stage.rnd, "gz"),
     TempPath(res'[s].stage.ts, res'[s].stage.rnd, "txt")}

Suspended(s) == pc[s] \in {"token", "net"}

\* C27: the staging pass has no suspension point between creating the first
\* staged file and removing both: whenever an invocation is suspended, no
\* staged file exists, provided no removal has failed.
C27_NoStagedFileWhileSuspended ==
    \A s \in AllSlots : Suspended(s) /\ faultCount = 0 => tmpFiles = {}

\* C27 witness: one invocation awaits its response while the other has staged,
\* returned its text and left nothing
C27_Witness ==
    /\ pc[1] = "net" /\ AttemptDone(2) /\ res[2].kind = "return"
    /\ res[2].stage.log = StagingOrder
    /\ faultCount = 0 /\ tmpFiles = {}

(***************************************************************************)
(* Properties of the staging pass of request: empty content.               *)
(***************************************************************************)
\* slot s holds a decoded report request whose gzip member holds no content
HoldsEmptyContent(s) ==
    /\ ReportRequestDecoded(s) /\ HasMagic(op[s].buffer)
    /\ Gunzip(op[s].buffer).ok
    /\ Gunzip(op[s].buffer).bytes = <<>>

\* C28 as stated: a gzip payload that decompresses to empty content is
\* rejected with the decode error 'Decompressed data contains invalid
\* characters', never returned as an empty report, and both staged files are
\* removed.
C28_EmptyRejectedAndRemoved ==
    \A s \in AllSlots :
        HoldsEmptyContent(s)
        => /\ res[s].kind = "throw" /\ res[s].err.code = "decode"
           /\ res[s].err.msg = <<DecodePrefix, InvalidCharacters>>
           /\ StagedGz(s) \notin tmpFiles /\ StagedTxt(s) \notin tmpFiles

\* C28 (amended): a gzip payload that decompresses to empty content is never
\* returned as an empty report: the request fails with the decode error, which
\* is 'Decompressed data contains invalid characters' behind the fixed prefix
\* unless a write or the read-back failed first, and both staged files are
\* removed unless a removal fails.
C28_EmptyRejected ==
    \A s \in AllSlots :
        HoldsEmptyContent(s)
        => /\ res[s].kind = "throw" /\ res[s].err.code = "decode"
           /\ res[s].data = <<>>
           /\ op[s].flt.io = "none"
              => /\ res[s].err.msg = <<DecodePrefix, InvalidCharacters>>
                 /\ FailedStage(res[s].stage.log) = "validate"
           /\ ~res[s].stage.unlinkFailed
              => StagedGz(s) \notin tmpFiles /\ StagedTxt(s) \notin tmpFiles

\* C28 witness: an empty gzip member was staged, read back, rejected by the
\* validation, and both files were removed
C28_Witness ==
    \E s \in AllSlots :
        /\ HoldsEmptyContent(s) /\ op[s].buffer = Gzip(<<>>) /\ op[s].flt = NoFaults
        /\ res[s].kind = "throw"
        /\ res[s].err.msg = <<DecodePrefix, InvalidCharacters>>
        /\ res[s].stage.log = <<"writeGz", "gunzip", "writeTxt", "readTxt", "validate",
                                "unlinkGz", "unlinkTxt", "throw">>
        /\ tmpFiles = {}

(***************************************************************************)
(* Properties of the report-date checks: months out of range.              *)
(***************************************************************************)
\* report dates whose month is not in 01..12
OutOfRangeDates == {D2024m13, D2024m00}

\* the month such a date counts as: 13 is January of the next year, 00 is
\* December of the previous year
RolledOverMonth(d) == IF d = D2024m13 THEN 2025 * 12 ELSE 2023 * 12 + 11

\* slot s holds a report invocation with a month out of range whose other
\* arguments are in order
HasOutOfRangeDate(s) ==
    /\ IsReportTool(s) /\ ReachesDateChecks(s)
    /\ op[s].args.reportDate.present /\ op[s].args.reportDate.v \in OutOfRangeDates

\* C29: the report-date checks do not look at the range of the month: 2024-00
\* and 2024-13 pass the format check and are compared with the current date
\* after rollover (13 as January 2025, 00 as December 2023).  When the
\* rolled-over month is not in the future the invocation goes on to the client
\* (token, then the HTTP call with the date as given); when it is, the
\* invocation fails with the future-date error before any call.
C29_MonthRangeNotChecked ==
    \A s \in AllSlots :
        HasOutOfRangeDate(s)
        => LET d == op[s].args.reportDate.v IN
           /\ MatchesDatePattern(d)
           /\ ReportDateObj(d).m = RolledOverMonth(d)
           /\ res[s].err.code # "date-format"
           /\ IF RolledOverMonth(d) <= op[s].now.m
              THEN /\ tokenCalls[s] = 1
                   /\ res[s].err.code \notin ValidationCodes
                   /\ call[s].issued => call[s].params.filter.reportDate = d
              ELSE /\ pc[s] = "done" /\ res[s].err.code = "future-date"
                   /\ NothingSent(s)

\* C29 witness: in January 2025 the sales report of 2024-13 was asked for and
\* the HTTP call was issued with that date
C29_Witness ==
    \E s \in AllSlots :
        /\ HasOutOfRangeDate(s) /\ op[s].kind = "sales"
        /\ op[s].args.reportDate.v = D2024m13 /\ op[s].now.m = 2025 * 12
        /\ call[s].issued /\ netCalls[s] = 1
        /\ call[s].params.filter.reportDate = D2024m13

\* C29 witness for month 00: in January 2024 the finance report of 2024-00
\* went on to the client
C29_WitnessMonthZero ==
    \E s \in AllSlots :
        /\ HasOutOfRangeDate(s) /\ op[s].kind = "finance"
        /\ op[s].args.reportDate.v = D2024m00 /\ op[s].now.m = 2024 * 12
        /\ call[s].issued

(***************************************************************************)
(* Properties of formatToolResponse: errors that are not axios errors, and *)
(* results.                                                                *)
(***************************************************************************)
\* slot s holds a finished call of a tool whose handler is modelled
ToolCallDone(s) == pc[s] = "done" /\ op[s].tool \in KnownTools

\* the reply in slot s is a tool response with exactly one text item
RepliesOneText(s) ==
    /\ reply[s].kind = "response"
    /\ Len(reply[s].content) = 1 /\ reply[s].content[1].type = "text"

\* the characters {"data":" that open the serialisation of a report result
DataOpening == <<123, 34, 100, 97, 116, 97, 34, 58, 34>>

\* C30: the status-based rewriting of formatToolResponse applies to axios
\* errors only: for every other error a handler or the tool case throws
\* (validation, configuration, token generation, decode) the tool response is
\* flagged isError and its text is the error's message exactly.  On success
\* the response is not flagged, and its text is the result itself when the
\* result is a string, else the JSON serialisation of the result.
C30_OnlyAxiosErrorsRewritten ==
    \A s \in AllSlots :
        ToolCallDone(s)
        => /\ (res[s].kind = "throw" /\ res[s].err.type # "AxiosError")
              => /\ RepliesOneText(s) /\ reply[s].isError
                 /\ reply[s].content[1].text = res[s].err.msg
           /\ res[s].kind = "return"
              => /\ RepliesOneText(s) /\ ~reply[s].isError
                 /\ LET text == reply[s].content[1].text IN
                    CASE res[s].json = "string" -> text = res[s].data
                      [] res[s].json = "document"
                           -> text = <<123, 34, 100, 97, 116, 97, 34, 58, 91, 93, 125>>
                      [] res[s].json = "segment"
                           -> text = <<123, 34, 100, 97, 116, 97, 34, 58, 123, 125, 125>>
                      [] OTHER
                           -> /\ Len(text) >= Len(res[s].data) + 11
                              /\ SubSeq(text, 1, 9) = DataOpening
                              /\ SubSeq(text, Len(text) - 1, Len(text)) = <<34, 125>>
                              /\ res[s].data = <<65, 65533>>
                                 => text = DataOpening \o <<65, 65533, 34, 125>>
                              /\ res[s].data = <<0>>
                                 => text = DataOpening
                                           \o <<92, 117, 48, 48, 48, 48, 34, 125>>

\* C30 witness: the sales report tool met a gzip payload that does not
\* decompress; the response is flagged and its text is the zlib message
C30_Witness ==
    \E s \in AllSlots :
        /\ ToolCallDone(s) /\ op[s].tool = ToolSalesReport
        /\ res[s].kind = "throw" /\ res[s].err.code = "zlib"
        /\ res[s].err.type # "AxiosError"
        /\ RepliesOneText(s) /\ reply[s].isError
        /\ reply[s].content[1].text = res[s].err.msg

\* a string result was passed through unquoted
C30_StringResultReached ==
    \E s \in AllSlots :
        /\ ToolCallDone(s) /\ res[s].kind = "return" /\ res[s].json = "string"
        /\ res[s].data = <<65, 34>>
        /\ RepliesOneText(s) /\ ~reply[s].isError
        /\ reply[s].content[1].text = <<65, 34>>

\* a report result was serialised with its NUL escaped
C30_ReportResultReached ==
    \E s \in AllSlots :
        /\ ToolCallDone(s) /\ op[s].tool = ToolFinanceReport
        /\ res[s].kind = "return" /\ res[s].data = <<0>>
        /\ reply[s].content[1].text = DataOpening \o <<92, 117, 48, 48, 48, 48, 34, 125>>
====
